---- MODULE Spec2Model ----
(***************************************************************************)
(* Solomon chess engine: bitboard position, move generation, move          *)
(* execution, evaluation and minimax search (engine/board_utils.py,        *)
(* engine/evaluation.py).                                                  *)
(*                                                                         *)
(* A bitboard is modelled as the set of its set bits: bit i of the Python  *)
(* integer is set exactly when i is a member.  A Python list is a          *)
(* sequence; a move is the pair <<from_sq, to_sq>>.  None is NoSquare for  *)
(* a square and NoMove for a move.                                         *)
(***************************************************************************)
EXTENDS Integers, Sequences, FiniteSets, TLC

\* ------------------------------------------------------------------------
\* Bounds of the model
\* ------------------------------------------------------------------------
MaxPly == 2

\* ------------------------------------------------------------------------
\* engine/constants.py (not part of the available sources)
\* ------------------------------------------------------------------------
NoSquare == -1
NoMove == <<>>

NORTH == 8
SOUTH == -8
NORTH_EAST == 9
NORTH_WEST == 7
SOUTH_EAST == -7
SOUTH_WEST == -9

\* Square enum: index = rank*8 + file, a1 = 0
A1 == 0
B1 == 1
C1 == 2
D1 == 3
E1 == 4
F1 == 5
G1 == 6
H1 == 7
A8 == 56
B8 == 57
C8 == 58
D8 == 59
E8 == 60
F8 == 61
G8 == 62
H8 == 63

CHECKMATE_SCORE == 20000

\* float('inf'): larger in absolute value than every score of the search
Infinity == 1000000

Squares == 0..63

SquareSeq == [i \in 1..64 |-> i - 1]

\* ------------------------------------------------------------------------
\* Bit primitives (board_utils.py)
\* ------------------------------------------------------------------------
set_bit(bitboard, square) == bitboard \cup {square}

clear_bit(bitboard, square) == bitboard \ {square}

\* 1 << square raises ValueError for a negative square: see get_bit_raises
get_bit(bitboard, square) == square \in bitboard

get_bit_raises(square) == square < 0

count_bits(bitboard) == Cardinality(bitboard)

lsb(bitboard) ==
    IF bitboard = {} THEN -1
    ELSE CHOOSE s \in bitboard : \A t \in bitboard : s <= t

\* "while piece: sq = lsb(piece); piece = clear_bit(piece, sq)" visits the
\* set bits in ascending order
BitsAscending(bitboard) == SelectSeq(SquareSeq, LAMBDA s : s \in bitboard)

mirror_square(square) ==
    LET r == square \div 8
        f == square % 8
    IN  (7 - r) * 8 + f

\* ------------------------------------------------------------------------
\* Attack tables (initialize_attack_tables)
\* ------------------------------------------------------------------------
knight_dirs == << <<2, 1>>, <<1, 2>>, <<-1, 2>>, <<-2, 1>>,
                  <<-2, -1>>, <<-1, -2>>, <<1, -2>>, <<2, -1>> >>

king_dirs == << <<1, 0>>, <<1, 1>>, <<0, 1>>, <<-1, 1>>,
                <<-1, 0>>, <<-1, -1>>, <<0, -1>>, <<1, -1>> >>

OnBoard(r, c) == 0 <= r /\ r < 8 /\ 0 <= c /\ c < 8

\* the tables of constants.py before initialisation
EmptyTable == [sq \in Squares |-> {}]

\* the knight loop is the only code inside "for sq in range(64)"
KNIGHT_ATTACKS ==
    [sq \in Squares |->
        LET row == sq \div 8
            col == sq % 8
        IN  EmptyTable[sq] \cup
            { (row + knight_dirs[i][1]) * 8 + (col + knight_dirs[i][2]) :
                i \in { j \in 1..8 : OnBoard(row + knight_dirs[j][1],
                                             col + knight_dirs[j][2]) } }]

\* the values the loop variables hold when "for sq in range(64)" is over
LoopSq == 63
LoopRow == LoopSq \div 8
LoopCol == LoopSq % 8

\* the king block runs once, after the loop, and accumulates r, c starting
\* from the last knight target: cursor after i king directions
RECURSIVE KingCursor(_)
KingCursor(i) ==
    IF i = 0
    THEN <<LoopRow + knight_dirs[8][1], LoopCol + knight_dirs[8][2]>>
    ELSE LET p == KingCursor(i - 1)
         IN  <<p[1] + king_dirs[i][1], p[2] + king_dirs[i][2]>>

KING_ATTACKS ==
    [sq \in Squares |->
        IF sq = LoopSq
        THEN EmptyTable[sq] \cup
             { KingCursor(i)[1] * 8 + KingCursor(i)[2] :
                 i \in { j \in 1..8 : OnBoard(KingCursor(j)[1], KingCursor(j)[2]) } }
        ELSE EmptyTable[sq]]

\* the pawn block also runs once, after the loop, for sq = 63
PAWN_ATTACKS_WHITE ==
    [sq \in Squares |->
        IF sq = LoopSq
        THEN EmptyTable[sq]
             \cup (IF LoopCol > 0 /\ LoopRow < 7 THEN {sq + NORTH_WEST} ELSE {})
             \cup (IF LoopCol < 7 /\ LoopRow < 7 THEN {sq + NORTH_EAST} ELSE {})
        ELSE EmptyTable[sq]]

PAWN_ATTACKS_BLACK ==
    [sq \in Squares |->
        IF sq = LoopSq
        THEN EmptyTable[sq]
             \cup (IF LoopCol > 0 /\ LoopRow > 0 THEN {sq + SOUTH_WEST} ELSE {})
             \cup (IF LoopCol < 7 /\ LoopRow > 0 THEN {sq + SOUTH_EAST} ELSE {})
        ELSE EmptyTable[sq]]

\* ------------------------------------------------------------------------
\* Sliding attacks (get_bishop_attacks, get_rook_attacks, get_queen_attacks)
\* ------------------------------------------------------------------------
\* one ray: add each square, stop after the first occupied one
RECURSIVE Ray(_, _, _, _, _)
Ray(r, c, dr, dc, occupied) ==
    IF ~OnBoard(r, c) THEN {}
    ELSE LET target_sq == r * 8 + c
         IN  IF get_bit(occupied, target_sq)
             THEN {target_sq}
             ELSE {target_sq} \cup Ray(r + dr, c + dc, dr, dc, occupied)

get_bishop_attacks(square, occupied) ==
    LET row == square \div 8
        col == square % 8
    IN  Ray(row - 1, col + 1, -1, 1, occupied)
        \cup Ray(row - 1, col - 1, -1, -1, occupied)
        \cup Ray(row + 1, col + 1, 1, 1, occupied)
        \cup Ray(row + 1, col - 1, 1, -1, occupied)

get_rook_attacks(square, occupied) ==
    LET row == square \div 8
        col == square % 8
    IN  Ray(row - 1, col, -1, 0, occupied)
        \cup Ray(row + 1, col, 1, 0, occupied)
        \cup Ray(row, col + 1, 0, 1, occupied)
        \cup Ray(row, col - 1, 0, -1, occupied)

get_queen_attacks(square, occupied) ==
    get_bishop_attacks(square, occupied) \cup get_rook_attacks(square, occupied)

\* ------------------------------------------------------------------------
\* Position (constants.BitboardPieces, the game_state dict)
\* ------------------------------------------------------------------------
PieceFields == {"W_PAWNS", "W_KNIGHTS", "W_BISHOPS", "W_ROOKS", "W_QUEENS", "W_KING",
                "B_PAWNS", "B_KNIGHTS", "B_BISHOPS", "B_ROOKS", "B_QUEENS", "B_KING"}

WhiteFields == {"W_PAWNS", "W_KNIGHTS", "W_BISHOPS", "W_ROOKS", "W_QUEENS", "W_KING"}

BlackFields == PieceFields \ WhiteFields

\* BitboardPieces(): every bitboard 0
BitboardPieces ==
    [W_PAWNS |-> {}, W_KNIGHTS |-> {}, W_BISHOPS |-> {}, W_ROOKS |-> {},
     W_QUEENS |-> {}, W_KING |-> {},
     B_PAWNS |-> {}, B_KNIGHTS |-> {}, B_BISHOPS |-> {}, B_ROOKS |-> {},
     B_QUEENS |-> {}, B_KING |-> {},
     W_PIECES |-> {}, B_PIECES |-> {}, ALL_PIECES |-> {}]

\* "Update combined bitboards"
UpdateCombined(p) ==
    LET w == p.W_PAWNS \cup p.W_KNIGHTS \cup p.W_BISHOPS \cup p.W_ROOKS
             \cup p.W_QUEENS \cup p.W_KING
        b == p.B_PAWNS \cup p.B_KNIGHTS \cup p.B_BISHOPS \cup p.B_ROOKS
             \cup p.B_QUEENS \cup p.B_KING
    IN  [p EXCEPT !.W_PIECES = w, !.B_PIECES = b, !.ALL_PIECES = w \cup b]

\* ------------------------------------------------------------------------
\* Pseudo-legal move generators (board_utils.py)
\* ------------------------------------------------------------------------
\* concatenation of a sequence of lists (moves.extend in a loop), halved to
\* keep the evaluation shallow
RECURSIVE Flatten(_)
Flatten(seqs) ==
    IF Len(seqs) = 0 THEN <<>>
    ELSE IF Len(seqs) = 1 THEN seqs[1]
    ELSE LET h == Len(seqs) \div 2
         IN  Flatten(SubSeq(seqs, 1, h)) \o Flatten(SubSeq(seqs, h + 1, Len(seqs)))

\* one move per set bit of targets, in ascending order
MovesTo(from_sq, targets) ==
    LET ts == BitsAscending(targets)
    IN  [i \in 1..Len(ts) |-> <<from_sq, ts[i]>>]

generate_knight_moves(knights, own_pieces) ==
    LET ps == BitsAscending(knights)
    IN  Flatten([i \in 1..Len(ps) |->
            MovesTo(ps[i], KNIGHT_ATTACKS[ps[i]] \ own_pieces)])

PawnMovesFrom(from_sq, all_pieces, enemy_pieces, is_white) ==
    LET forward == IF is_white THEN NORTH ELSE SOUTH
        double_forward == forward * 2
        start_rank == IF is_white THEN 1 ELSE 6
        to_sq == from_sq + forward
        to_sq_double == from_sq + double_forward
        single == 0 <= to_sq /\ to_sq < 64 /\ ~get_bit(all_pieces, to_sq)
        double == single /\ from_sq \div 8 = start_rank
                  /\ 0 <= to_sq_double /\ to_sq_double < 64
                  /\ ~get_bit(all_pieces, to_sq_double)
        attack_board == (IF is_white THEN PAWN_ATTACKS_WHITE[from_sq]
                                     ELSE PAWN_ATTACKS_BLACK[from_sq])
                        \cap enemy_pieces
    IN  (IF single THEN << <<from_sq, to_sq>> >> ELSE <<>>)
        \o (IF double THEN << <<from_sq, to_sq_double>> >> ELSE <<>>)
        \o MovesTo(from_sq, attack_board)

generate_pawn_moves(pawns, all_pieces, enemy_pieces, is_white) ==
    LET ps == BitsAscending(pawns)
    IN  Flatten([i \in 1..Len(ps) |->
            PawnMovesFrom(ps[i], all_pieces, enemy_pieces, is_white)])

generate_bishop_moves(bishops, own_pieces, all_pieces) ==
    LET ps == BitsAscending(bishops)
    IN  Flatten([i \in 1..Len(ps) |->
            MovesTo(ps[i], get_bishop_attacks(ps[i], all_pieces) \ own_pieces)])

generate_rook_moves(rooks, own_pieces, all_pieces) ==
    LET ps == BitsAscending(rooks)
    IN  Flatten([i \in 1..Len(ps) |->
            MovesTo(ps[i], get_rook_attacks(ps[i], all_pieces) \ own_pieces)])

generate_queen_moves(queens, own_pieces, all_pieces) ==
    LET ps == BitsAscending(queens)
    IN  Flatten([i \in 1..Len(ps) |->
            MovesTo(ps[i], get_queen_attacks(ps[i], all_pieces) \ own_pieces)])

generate_king_moves(king, own_pieces) ==
    IF king = {} THEN <<>>
    ELSE MovesTo(lsb(king), KING_ATTACKS[lsb(king)] \ own_pieces)

\* ------------------------------------------------------------------------
\* is_square_attacked, is_in_check
\* ------------------------------------------------------------------------
\* the pawn test evaluates get_bit at square-9 / square-7 (by_white), which
\* raises ValueError when that index is negative; "and"/"or" short-circuit
is_square_attacked_raises(square, pieces, by_white) ==
    /\ by_white
    /\ \/ square % 8 > 0 /\ get_bit_raises(square - 9)
       \/ /\ ~(square % 8 > 0 /\ get_bit(pieces.W_PAWNS, square - 9))
          /\ square % 8 < 7
          /\ get_bit_raises(square - 7)

is_square_attacked(square, pieces, by_white) ==
    LET pawn_hit ==
            IF by_white
            THEN \/ square % 8 > 0 /\ get_bit(pieces.W_PAWNS, square - 9)
                 \/ square % 8 < 7 /\ get_bit(pieces.W_PAWNS, square - 7)
            ELSE \/ square % 8 > 0 /\ get_bit(pieces.B_PAWNS, square + 7)
                 \/ square % 8 < 7 /\ get_bit(pieces.B_PAWNS, square + 9)
        attackers == IF by_white THEN pieces.W_KNIGHTS ELSE pieces.B_KNIGHTS
        king == IF by_white THEN pieces.W_KING ELSE pieces.B_KING
        bishop_attacks == get_bishop_attacks(square, pieces.ALL_PIECES)
        rook_attacks == get_rook_attacks(square, pieces.ALL_PIECES)
        diag == IF by_white THEN pieces.W_BISHOPS \cup pieces.W_QUEENS
                            ELSE pieces.B_BISHOPS \cup pieces.B_QUEENS
        line == IF by_white THEN pieces.W_ROOKS \cup pieces.W_QUEENS
                            ELSE pieces.B_ROOKS \cup pieces.B_QUEENS
    IN  \/ pawn_hit
        \/ KNIGHT_ATTACKS[square] \cap attackers # {}
        \/ KING_ATTACKS[square] \cap king # {}
        \/ bishop_attacks \cap diag # {}
        \/ rook_attacks \cap line # {}

is_in_check(pieces, white_to_move) ==
    is_square_attacked(lsb(IF white_to_move THEN pieces.W_KING ELSE pieces.B_KING),
                       pieces, ~white_to_move)

is_in_check_raises(pieces, white_to_move) ==
    is_square_attacked_raises(
        lsb(IF white_to_move THEN pieces.W_KING ELSE pieces.B_KING),
        pieces, ~white_to_move)

\* ------------------------------------------------------------------------
\* Castling and en passant generators
\* ------------------------------------------------------------------------
generate_castling_moves(pieces, castling_rights, is_white) ==
    IF is_in_check(pieces, is_white) THEN <<>>
    ELSE IF is_white
    THEN (IF /\ "K" \in castling_rights
             /\ ~get_bit(pieces.ALL_PIECES, F1)
             /\ ~get_bit(pieces.ALL_PIECES, G1)
             /\ ~is_square_attacked(F1, pieces, FALSE)
             /\ ~is_square_attacked(G1, pieces, FALSE)
          THEN << <<E1, G1>> >> ELSE <<>>)
         \o
         (IF /\ "Q" \in castling_rights
             /\ ~get_bit(pieces.ALL_PIECES, D1)
             /\ ~get_bit(pieces.ALL_PIECES, C1)
             /\ ~get_bit(pieces.ALL_PIECES, B1)
             /\ ~is_square_attacked(D1, pieces, FALSE)
             /\ ~is_square_attacked(C1, pieces, FALSE)
          THEN << <<E1, C1>> >> ELSE <<>>)
    ELSE (IF /\ "k" \in castling_rights
             /\ ~get_bit(pieces.ALL_PIECES, F8)
             /\ ~get_bit(pieces.ALL_PIECES, G8)
             /\ ~is_square_attacked(F8, pieces, TRUE)
             /\ ~is_square_attacked(G8, pieces, TRUE)
          THEN << <<E8, G8>> >> ELSE <<>>)
         \o
         (IF /\ "q" \in castling_rights
             /\ ~get_bit(pieces.ALL_PIECES, D8)
             /\ ~get_bit(pieces.ALL_PIECES, C8)
             /\ ~get_bit(pieces.ALL_PIECES, B8)
             /\ ~is_square_attacked(D8, pieces, TRUE)
             /\ ~is_square_attacked(C8, pieces, TRUE)
          THEN << <<E8, C8>> >> ELSE <<>>)

\* the first is_square_attacked call is the one of is_in_check; the later
\* ones are on f8/g8/d8/c8 (by White) or by Black and cannot raise
generate_castling_moves_raises(pieces, castling_rights, is_white) ==
    is_in_check_raises(pieces, is_white)

generate_en_passant_moves(pieces, en_passant_square, is_white) ==
    IF en_passant_square = NoSquare THEN <<>>
    ELSE IF is_white
    THEN IF en_passant_square \div 8 = 2
         THEN LET left_square == en_passant_square + 7
                  right_square == en_passant_square + 9
              IN  (IF left_square % 8 # 7 /\ get_bit(pieces.W_PAWNS, left_square)
                   THEN << <<left_square, en_passant_square>> >> ELSE <<>>)
                  \o
                  (IF right_square % 8 # 0 /\ get_bit(pieces.W_PAWNS, right_square)
                   THEN << <<right_square, en_passant_square>> >> ELSE <<>>)
         ELSE <<>>
    ELSE IF en_passant_square \div 8 = 5
         THEN LET left_square == en_passant_square - 9
                  right_square == en_passant_square - 7
              IN  (IF left_square % 8 # 7 /\ get_bit(pieces.B_PAWNS, left_square)
                   THEN << <<left_square, en_passant_square>> >> ELSE <<>>)
                  \o
                  (IF right_square % 8 # 0 /\ get_bit(pieces.B_PAWNS, right_square)
                   THEN << <<right_square, en_passant_square>> >> ELSE <<>>)
         ELSE <<>>

\* ------------------------------------------------------------------------
\* generate_all_moves (evaluation.py)
\* ------------------------------------------------------------------------
WhiteOrder == <<"W_PAWNS", "W_KNIGHTS", "W_BISHOPS", "W_ROOKS", "W_QUEENS", "W_KING">>

BlackOrder == <<"B_PAWNS", "B_KNIGHTS", "B_BISHOPS", "B_ROOKS", "B_QUEENS", "B_KING">>

\* the if/elif chain "which piece is moving": the first bitboard of the
\* mover's colour with a bit at from_sq, "none" when there is none
MovingField(pieces, from_sq, is_white) ==
    LET order == IF is_white THEN WhiteOrder ELSE BlackOrder
        hits == { i \in 1..6 : get_bit(pieces[order[i]], from_sq) }
    IN  IF hits = {} THEN "none"
        ELSE order[CHOOSE i \in hits : \A j \in hits : i <= j]

\* a capture that clears to_sq on all six bitboards of the enemy, the king's
\* included
ClearEnemyAt_WithKing(p, to_sq, is_white) ==
    IF is_white
    THEN [p EXCEPT !.B_PAWNS = clear_bit(@, to_sq), !.B_KNIGHTS = clear_bit(@, to_sq),
                   !.B_BISHOPS = clear_bit(@, to_sq), !.B_ROOKS = clear_bit(@, to_sq),
                   !.B_QUEENS = clear_bit(@, to_sq), !.B_KING = clear_bit(@, to_sq)]
    ELSE [p EXCEPT !.W_PAWNS = clear_bit(@, to_sq), !.W_KNIGHTS = clear_bit(@, to_sq),
                   !.W_BISHOPS = clear_bit(@, to_sq), !.W_ROOKS = clear_bit(@, to_sq),
                   !.W_QUEENS = clear_bit(@, to_sq), !.W_KING = clear_bit(@, to_sq)]

\* clear_bit at to_sq on the five non-king bitboards of the enemy
ClearEnemyAt(p, to_sq, is_white) ==
    IF is_white
    THEN [p EXCEPT !.B_PAWNS = clear_bit(@, to_sq), !.B_KNIGHTS = clear_bit(@, to_sq),
                   !.B_BISHOPS = clear_bit(@, to_sq), !.B_ROOKS = clear_bit(@, to_sq),
                   !.B_QUEENS = clear_bit(@, to_sq)]
    ELSE [p EXCEPT !.W_PAWNS = clear_bit(@, to_sq), !.W_KNIGHTS = clear_bit(@, to_sq),
                   !.W_BISHOPS = clear_bit(@, to_sq), !.W_ROOKS = clear_bit(@, to_sq),
                   !.W_QUEENS = clear_bit(@, to_sq)]

\* the provisional position of the king-safety filter
ProvisionalPieces(pieces, move, is_white) ==
    LET from_sq == move[1]
        to_sq == move[2]
        f == MovingField(pieces, from_sq, is_white)
        moved == IF f = "none" THEN pieces
                 ELSE [pieces EXCEPT ![f] = set_bit(clear_bit(@, from_sq), to_sq)]
    IN  UpdateCombined(ClearEnemyAt(moved, to_sq, is_white))

PseudoLegalMoves(pieces, game_state) ==
    LET is_white == game_state.side_to_move = "w"
    IN  (IF is_white
         THEN generate_pawn_moves(pieces.W_PAWNS, pieces.ALL_PIECES, pieces.B_PIECES, TRUE)
              \o generate_knight_moves(pieces.W_KNIGHTS, pieces.W_PIECES)
              \o generate_bishop_moves(pieces.W_BISHOPS, pieces.W_PIECES, pieces.ALL_PIECES)
              \o generate_rook_moves(pieces.W_ROOKS, pieces.W_PIECES, pieces.ALL_PIECES)
              \o generate_queen_moves(pieces.W_QUEENS, pieces.W_PIECES, pieces.ALL_PIECES)
              \o generate_king_moves(pieces.W_KING, pieces.W_PIECES)
              \o generate_castling_moves(pieces, game_state.castling_rights, TRUE)
         ELSE generate_pawn_moves(pieces.B_PAWNS, pieces.ALL_PIECES, pieces.W_PIECES, FALSE)
              \o generate_knight_moves(pieces.B_KNIGHTS, pieces.B_PIECES)
              \o generate_bishop_moves(pieces.B_BISHOPS, pieces.B_PIECES, pieces.ALL_PIECES)
              \o generate_rook_moves(pieces.B_ROOKS, pieces.B_PIECES, pieces.ALL_PIECES)
              \o generate_queen_moves(pieces.B_QUEENS, pieces.B_PIECES, pieces.ALL_PIECES)
              \o generate_king_moves(pieces.B_KING, pieces.B_PIECES)
              \o generate_castling_moves(pieces, game_state.castling_rights, FALSE))
        \o (IF game_state.en_passant # NoSquare
            THEN generate_en_passant_moves(pieces, game_state.en_passant, is_white)
            ELSE <<>>)

\* The filter loop.  king_sq is set to to_sq by every king move and never
\* set back: when moves[i] is tested it is the target of the last king move
\* among moves[1..i], or the king's square if there is none.
FilterKingSq(pieces, is_white, moves, i) ==
    LET king == IF is_white THEN pieces.W_KING ELSE pieces.B_KING
        king_moves == { j \in 1..i : get_bit(king, moves[j][1]) }
    IN  IF king_moves = {} THEN lsb(king)
        ELSE moves[CHOOSE j \in king_moves : \A k \in king_moves : k <= j][2]

\* moves[i] passes the test "not is_square_attacked(king_sq, new_pieces, ...)"
FilterKeeps(pieces, is_white, moves, i) ==
    ~is_square_attacked(FilterKingSq(pieces, is_white, moves, i),
                        ProvisionalPieces(pieces, moves[i], is_white), ~is_white)

FilterRaises(pieces, is_white, moves, i) ==
    is_square_attacked_raises(FilterKingSq(pieces, is_white, moves, i),
                              ProvisionalPieces(pieces, moves[i], is_white), ~is_white)

FilterLoop(pieces, is_white, moves) ==
    LET kept == SelectSeq([i \in 1..Len(moves) |-> i],
                          LAMBDA i : FilterKeeps(pieces, is_white, moves, i))
    IN  [k \in 1..Len(kept) |-> moves[kept[k]]]

\* some test of the filter loop raises
FilterLoopRaises(pieces, is_white, moves) ==
    ~is_white /\ \E i \in 1..Len(moves) : FilterRaises(pieces, is_white, moves, i)

generate_all_moves_raises(pieces, game_state) ==
    LET is_white == game_state.side_to_move = "w"
    IN  \/ generate_castling_moves_raises(pieces, game_state.castling_rights, is_white)
        \/ FilterLoopRaises(pieces, is_white, PseudoLegalMoves(pieces, game_state))

\* the list returned when nothing raises
generate_all_moves(pieces, game_state) ==
    FilterLoop(pieces, game_state.side_to_move = "w", PseudoLegalMoves(pieces, game_state))

\* ------------------------------------------------------------------------
\* make_move (evaluation.py)
\* ------------------------------------------------------------------------
make_move_pieces(pieces, move, game_state) ==
    LET from_sq == move[1]
        to_sq == move[2]
        is_white == game_state.side_to_move = "w"
        f == MovingField(pieces, from_sq, is_white)
        copy == [pieces EXCEPT !.W_PIECES = {}, !.B_PIECES = {}, !.ALL_PIECES = {}]
        moved ==
            CASE f = "W_PAWNS" ->
                   IF to_sq \div 8 = 0
                   THEN [copy EXCEPT !.W_PAWNS = clear_bit(@, from_sq),
                                     !.W_QUEENS = set_bit(@, to_sq)]
                   ELSE LET q == [copy EXCEPT !.W_PAWNS = set_bit(clear_bit(@, from_sq), to_sq)]
                        IN  IF game_state.en_passant = to_sq
                            THEN [q EXCEPT !.B_PAWNS = clear_bit(@, to_sq + 8)]
                            ELSE q
              [] f = "B_PAWNS" ->
                   IF to_sq \div 8 = 7
                   THEN [copy EXCEPT !.B_PAWNS = clear_bit(@, from_sq),
                                     !.B_QUEENS = set_bit(@, to_sq)]
                   ELSE LET q == [copy EXCEPT !.B_PAWNS = set_bit(clear_bit(@, from_sq), to_sq)]
                        IN  IF game_state.en_passant = to_sq
                            THEN [q EXCEPT !.W_PAWNS = clear_bit(@, to_sq - 8)]
                            ELSE q
              [] f = "W_KING" ->
                   LET q == [copy EXCEPT !.W_KING = set_bit(clear_bit(@, from_sq), to_sq)]
                   IN  IF from_sq = 4 /\ to_sq = 6
                       THEN [q EXCEPT !.W_ROOKS = set_bit(clear_bit(@, 7), 5)]
                       ELSE IF from_sq = 4 /\ to_sq = 2
                       THEN [q EXCEPT !.W_ROOKS = set_bit(clear_bit(@, 0), 3)]
                       ELSE q
              [] f = "B_KING" ->
                   LET q == [copy EXCEPT !.B_KING = set_bit(clear_bit(@, from_sq), to_sq)]
                   IN  IF from_sq = 60 /\ to_sq = 62
                       THEN [q EXCEPT !.B_ROOKS = set_bit(clear_bit(@, 63), 61)]
                       ELSE IF from_sq = 60 /\ to_sq = 58
                       THEN [q EXCEPT !.B_ROOKS = set_bit(clear_bit(@, 56), 59)]
                       ELSE q
              [] f = "none" -> copy
              [] OTHER -> [copy EXCEPT ![f] = set_bit(clear_bit(@, from_sq), to_sq)]
    IN  UpdateCombined(ClearEnemyAt(moved, to_sq, is_white))

\* a king move that writes the castling rights anew instead of removing its own
CastlingRightsAfter_Rewritten(f, from_sq, castling_rights) ==
    CASE f = "W_ROOKS" /\ from_sq = 0 -> castling_rights \ {"Q"}
      [] f = "W_ROOKS" /\ from_sq = 7 -> castling_rights \ {"K"}
      [] f = "W_KING" -> {"k", "q"}
      [] f = "B_ROOKS" /\ from_sq = 56 -> castling_rights \ {"q"}
      [] f = "B_ROOKS" /\ from_sq = 63 -> castling_rights \ {"k"}
      [] f = "B_KING" -> {"K", "Q"}
      [] OTHER -> castling_rights

\* the castling rights after the piece of bitboard f has left from_sq: the
\* .replace(letter, '') calls of the rook and king branches
CastlingRightsAfter(f, from_sq, castling_rights) ==
    CASE f = "W_ROOKS" /\ from_sq = 0 -> castling_rights \ {"Q"}
      [] f = "W_ROOKS" /\ from_sq = 7 -> castling_rights \ {"K"}
      [] f = "W_KING" -> castling_rights \ {"K", "Q"}
      [] f = "B_ROOKS" /\ from_sq = 56 -> castling_rights \ {"q"}
      [] f = "B_ROOKS" /\ from_sq = 63 -> castling_rights \ {"k"}
      [] f = "B_KING" -> castling_rights \ {"k", "q"}
      [] OTHER -> castling_rights

make_move_state(pieces, move, game_state) ==
    LET from_sq == move[1]
        to_sq == move[2]
        is_white == game_state.side_to_move = "w"
        f == MovingField(pieces, from_sq, is_white)
        is_capture == get_bit(pieces.ALL_PIECES, to_sq)
        clock0 == IF is_capture THEN 0 ELSE game_state.halfmove_clock
        is_pawn == f \in {"W_PAWNS", "B_PAWNS"}
        en_passant ==
            IF f = "W_PAWNS" /\ to_sq \div 8 # 0 /\ to_sq - from_sq = -16
            THEN from_sq - 8
            ELSE IF f = "B_PAWNS" /\ to_sq \div 8 # 7 /\ to_sq - from_sq = 16
            THEN from_sq + 8
            ELSE NoSquare
        rights == CastlingRightsAfter(f, from_sq, game_state.castling_rights)
    IN  [side_to_move |-> IF is_white THEN "b" ELSE "w",
         castling_rights |-> rights,
         en_passant |-> en_passant,
         halfmove_clock |-> IF is_pawn THEN 0
                            ELSE IF f = "none" THEN clock0
                            ELSE clock0 + 1,
         fullmove_number |-> IF is_white THEN game_state.fullmove_number
                             ELSE game_state.fullmove_number + 1]

\* ------------------------------------------------------------------------
\* make_move on objects: the heap is the sequence of the objects allocated
\* so far, a reference is an index into it
\* ------------------------------------------------------------------------
\* new_game_state = game_state (the same dict) instead of game_state.copy()
make_move_Aliased(heap, pieces, game_state, move) ==
    LET new_pieces == Len(heap) + 1
        new_game_state == game_state
        allocated == Append(heap, BitboardPieces)
        written ==
            [allocated EXCEPT
                ![new_pieces] = make_move_pieces(heap[pieces], move, heap[game_state]),
                ![new_game_state] = make_move_state(heap[pieces], move, heap[game_state])]
    IN  [heap |-> written, new_pieces |-> new_pieces, new_game_state |-> new_game_state]

\* pieces and game_state are references; new_pieces = BitboardPieces() and
\* new_game_state = game_state.copy() allocate two objects, every later
\* assignment of the function writes a field of one of the two; the fields
\* hold ints, strs and None.  The result is the heap afterwards and the
\* returned pair of references.
make_move(heap, pieces, game_state, move) ==
    LET new_pieces == Len(heap) + 1
        new_game_state == Len(heap) + 2
        allocated == heap \o <<BitboardPieces, heap[game_state]>>
        written ==
            [allocated EXCEPT
                ![new_pieces] = make_move_pieces(heap[pieces], move, heap[game_state]),
                ![new_game_state] = make_move_state(heap[pieces], move, heap[game_state])]
    IN  [heap |-> written, new_pieces |-> new_pieces, new_game_state |-> new_game_state]

\* ------------------------------------------------------------------------
\* FEN decoding (parse_fen_to_bitboards) and square names
\* ------------------------------------------------------------------------
\* A FEN is the sequence fen.split(' '): the board field and the castling
\* field are sequences of one-character strings, the en passant field is
\* <<"-">> or <<file letter, rank digit>>, the clocks are the int() values.
DigitValue == [c \in {"0", "1", "2", "3", "4", "5", "6", "7", "8", "9"} |->
                CASE c = "0" -> 0 [] c = "1" -> 1 [] c = "2" -> 2 [] c = "3" -> 3
                  [] c = "4" -> 4 [] c = "5" -> 5 [] c = "6" -> 6 [] c = "7" -> 7
                  [] c = "8" -> 8 [] c = "9" -> 9]

FileLetters == <<"a", "b", "c", "d", "e", "f", "g", "h">>

\* ord(c) - ord('a')
FileOrd(c) == (CHOOSE i \in 1..8 : FileLetters[i] = c) - 1

PieceLetterField ==
    [c \in {"P", "N", "B", "R", "Q", "K", "p", "n", "b", "r", "q", "k"} |->
        CASE c = "P" -> "W_PAWNS" [] c = "N" -> "W_KNIGHTS" [] c = "B" -> "W_BISHOPS"
          [] c = "R" -> "W_ROOKS" [] c = "Q" -> "W_QUEENS" [] c = "K" -> "W_KING"
          [] c = "p" -> "B_PAWNS" [] c = "n" -> "B_KNIGHTS" [] c = "b" -> "B_BISHOPS"
          [] c = "r" -> "B_ROOKS" [] c = "q" -> "B_QUEENS" [] c = "k" -> "B_KING"]

algebraic_to_index(algebraic) ==
    LET file == FileOrd(algebraic[1])
        rank == 8 - DigitValue[algebraic[2]]
    IN  rank * 8 + file

\* str(n) of a one-digit number
DigitChar(n) == CHOOSE c \in DOMAIN DigitValue : DigitValue[c] = n

\* the name f"{file}{rank}" as <<file letter, rank digit>>
index_to_algebraic(index) ==
    LET file == FileLetters[(index % 8) + 1]
        rank == 8 - (index \div 8)
    IN  <<file, DigitChar(rank)>>

\* board_utils.square_to_algebraic is called by the engine and the tests but
\* is not defined in the available board_utils.py: file letter, rank digit
\* with index = rank*8 + file counted from rank 1
square_to_algebraic(index) == <<FileLetters[(index % 8) + 1], index \div 8 + 1>>

\* The scan of the board field.  The cursor starts at 56; '/' moves it by
\* -16, a digit d by d, any other character by 1.  Cursor when character i
\* is read:
ScanSquare(board_part, i) ==
    LET before == 1..(i - 1)
        slashes == Cardinality({ j \in before : board_part[j] = "/" })
        digits(d) == Cardinality({ j \in before : board_part[j] \in DOMAIN DigitValue
                                                  /\ DigitValue[board_part[j]] = d })
        others == Cardinality({ j \in before : board_part[j] # "/"
                                               /\ board_part[j] \notin DOMAIN DigitValue })
    IN  56 - 16 * slashes
        + 1 * digits(1) + 2 * digits(2) + 3 * digits(3) + 4 * digits(4) + 5 * digits(5)
        + 6 * digits(6) + 7 * digits(7) + 8 * digits(8) + 9 * digits(9)
        + others

\* each piece letter sets the bit of the cursor in its bitboard
ParseBoard(board_part) ==
    LET bits(field) == { ScanSquare(board_part, i) :
                            i \in { j \in 1..Len(board_part) :
                                      /\ board_part[j] \in DOMAIN PieceLetterField
                                      /\ PieceLetterField[board_part[j]] = field } }
    IN  [f \in PieceFields |-> bits(f)]

\* the BitboardPieces the scan fills, with the combined bitboards
ScannedPieces(b) ==
    UpdateCombined(
      [W_PAWNS |-> b["W_PAWNS"], W_KNIGHTS |-> b["W_KNIGHTS"],
       W_BISHOPS |-> b["W_BISHOPS"], W_ROOKS |-> b["W_ROOKS"],
       W_QUEENS |-> b["W_QUEENS"], W_KING |-> b["W_KING"],
       B_PAWNS |-> b["B_PAWNS"], B_KNIGHTS |-> b["B_KNIGHTS"],
       B_BISHOPS |-> b["B_BISHOPS"], B_ROOKS |-> b["B_ROOKS"],
       B_QUEENS |-> b["B_QUEENS"], B_KING |-> b["B_KING"],
       W_PIECES |-> {}, B_PIECES |-> {}, ALL_PIECES |-> {}])

parse_fen_pieces(fen_parts) == ScannedPieces(ParseBoard(fen_parts[1]))

parse_fen_state(fen_parts) ==
    [side_to_move |-> IF Len(fen_parts) > 1 THEN fen_parts[2] ELSE "w",
     castling_rights |-> IF Len(fen_parts) > 2
                         THEN { fen_parts[3][i] : i \in 1..Len(fen_parts[3]) }
                         ELSE {},
     en_passant |-> IF Len(fen_parts) > 3 /\ fen_parts[4] # <<"-">>
                    THEN algebraic_to_index(fen_parts[4])
                    ELSE NoSquare,
     halfmove_clock |-> IF Len(fen_parts) > 4 THEN fen_parts[5] ELSE 0,
     fullmove_number |-> IF Len(fen_parts) > 5 THEN fen_parts[6] ELSE 1]

\* parse_fen_to_bitboards raises: the en passant field is not "-" and has no
\* second character (IndexError) or one that is no digit (ValueError of
\* int()), or a piece letter is read while the cursor is negative
\* (ValueError of 1 << square).  The clock fields of the inputs are numbers.
parse_fen_raises(fen_parts) ==
    \/ /\ Len(fen_parts) > 3
       /\ fen_parts[4] # <<"-">>
       /\ IF Len(fen_parts[4]) < 2 THEN TRUE
          ELSE fen_parts[4][2] \notin DOMAIN DigitValue
    \/ \E i \in 1..Len(fen_parts[1]) :
          /\ fen_parts[1][i] \in DOMAIN PieceLetterField
          /\ ScanSquare(fen_parts[1], i) < 0

\* ------------------------------------------------------------------------
\* Evaluation (get_piece_scores, get_game_phase, evaluate_positions)
\* ------------------------------------------------------------------------
PieceTypes == <<"P", "N", "B", "R", "Q", "K">>

\* constants.py is not available: the material values are the ones the
\* tests quote for the knight (337 / 281) and their PeSTO companions
PIECE_VALUES_MG == [P |-> 82, N |-> 337, B |-> 365, R |-> 477, Q |-> 1025, K |-> 0]

PIECE_VALUES_EG == [P |-> 94, N |-> 281, B |-> 297, R |-> 512, Q |-> 936, K |-> 0]

\* the piece-square tables of constants.py are not available; the model
\* uses flat tables
MG_TABLE == [t \in {"P", "N", "B", "R", "Q", "K"} |-> [sq \in Squares |-> 0]]

EG_TABLE == [t \in {"P", "N", "B", "R", "Q", "K"} |-> [sq \in Squares |-> 0]]

RECURSIVE SumSeq(_)
SumSeq(xs) ==
    IF Len(xs) = 0 THEN 0
    ELSE IF Len(xs) = 1 THEN xs[1]
    ELSE LET h == Len(xs) \div 2
         IN  SumSeq(SubSeq(xs, 1, h)) + SumSeq(SubSeq(xs, h + 1, Len(xs)))

\* <<mg_score, eg_score>> of one bitboard, from White's perspective
get_piece_scores(piece_bitboard, piece_type, is_white) ==
    LET sqs == BitsAscending(piece_bitboard)
        eval_square(i) == IF is_white THEN sqs[i] ELSE mirror_square(sqs[i])
        mg == SumSeq([i \in 1..Len(sqs) |->
                        PIECE_VALUES_MG[piece_type] + MG_TABLE[piece_type][eval_square(i)]])
        eg == SumSeq([i \in 1..Len(sqs) |->
                        PIECE_VALUES_EG[piece_type] + EG_TABLE[piece_type][eval_square(i)]])
    IN  IF is_white THEN <<mg, eg>> ELSE <<-mg, -eg>>

get_game_phase(pieces) ==
    LET knight_count == count_bits(pieces.W_KNIGHTS \cup pieces.B_KNIGHTS)
        bishop_count == count_bits(pieces.W_BISHOPS \cup pieces.B_BISHOPS)
        rook_count == count_bits(pieces.W_ROOKS \cup pieces.B_ROOKS)
        queen_count == count_bits(pieces.W_QUEENS \cup pieces.B_QUEENS)
        phase == knight_count + bishop_count + 2 * rook_count + 4 * queen_count
        scaled == (phase * 256 + 12) \div 24
    IN  IF scaled > 256 THEN 256 ELSE scaled

evaluate_positions(pieces) ==
    LET scores == [i \in 1..12 |->
                     IF i <= 6
                     THEN get_piece_scores(pieces[WhiteOrder[i]], PieceTypes[i], TRUE)
                     ELSE get_piece_scores(pieces[BlackOrder[i - 6]], PieceTypes[i - 6], FALSE)]
        mg_score == SumSeq([i \in 1..12 |-> scores[i][1]])
        eg_score == SumSeq([i \in 1..12 |-> scores[i][2]])
        phase == get_game_phase(pieces)
    IN  ((mg_score * phase) + (eg_score * (256 - phase))) \div 256

\* ------------------------------------------------------------------------
\* Search (order_moves, minimax, ChessEvaluator.get_best_move)
\* ------------------------------------------------------------------------
order_moves(moves, pieces) ==
    SelectSeq(moves, LAMBDA m : get_bit(pieces.ALL_PIECES, m[2]))
    \o SelectSeq(moves, LAMBDA m : ~get_bit(pieces.ALL_PIECES, m[2]))

\* Binary addition of two numbers given by their sets of bits
RECURSIVE AddBits(_, _)
AddBits(x, y) ==
    IF y = {} THEN x
    ELSE AddBits((x \cup y) \ (x \cap y), { b + 1 : b \in x \cap y })

\* hash() of a bitboard: CPython hashes a non-negative int n to
\* n mod (2^61 - 1), so bit 61 + k counts as bit k.  The result is the set
\* of bits of the hash value.
RECURSIVE HashBits(_)
HashBits(bitboard) ==
    IF bitboard \cap (61..127) = {}
    THEN (IF bitboard = 0..60 THEN {} ELSE bitboard)
    ELSE HashBits(AddBits(bitboard \cap (0..60),
                          { b - 61 : b \in bitboard \cap (61..127) }))

\* position_key = hash(tuple): equal exactly when the hashes of the
\* members are equal
position_key(pieces, game_state) ==
    <<HashBits(pieces.W_PAWNS), HashBits(pieces.W_KNIGHTS), HashBits(pieces.W_BISHOPS),
      HashBits(pieces.W_ROOKS), HashBits(pieces.W_QUEENS), HashBits(pieces.W_KING),
      HashBits(pieces.B_PAWNS), HashBits(pieces.B_KNIGHTS), HashBits(pieces.B_BISHOPS),
      HashBits(pieces.B_ROOKS), HashBits(pieces.B_QUEENS), HashBits(pieces.B_KING),
      game_state.side_to_move, game_state.castling_rights, game_state.en_passant>>

\* transposition_table[key] = {'score': score, 'depth': depth}
TableStore(table, key, score, depth) ==
    [k \in DOMAIN table \cup {key} |->
        IF k = key THEN [score |-> score, depth |-> depth] ELSE table[k]]

EmptyTranspositionTable == [k \in {} |-> [score |-> 0, depth |-> 0]]

MinimaxValue(score, table) == [kind |-> "value", score |-> score, table |-> table]

MinimaxRaise(table) == [kind |-> "raise", score |-> 0, table |-> table]

\* the leaf without the change of sign
MinimaxLeaf_Unsigned(key, is_white, maximizing, table, evaluation) ==
    MinimaxValue(evaluation, TableStore(table, key, evaluation, 0))

\* "if depth == 0": the evaluation, negated when the side to move and the
\* maximizing flag disagree, stored and returned
MinimaxLeaf(key, is_white, maximizing, table, evaluation) ==
    LET score == IF (maximizing /\ ~is_white) \/ (~maximizing /\ is_white)
                 THEN -evaluation ELSE evaluation
    IN  MinimaxValue(score, TableStore(table, key, score, 0))

\* "if not moves": checkmate or stalemate score, stored and returned
MinimaxNoMoves(key, depth, maximizing, table, in_check) ==
    LET score == IF in_check
                 THEN (IF maximizing THEN -CHECKMATE_SCORE ELSE CHECKMATE_SCORE)
                 ELSE 0
    IN  MinimaxValue(score, TableStore(table, key, score, depth))

\* minimax after generate_all_moves returned moves
MinimaxGenerated(pieces, game_state, depth, alpha, beta, maximizing, table, key, moves) ==
    IF moves = <<>>
    THEN IF is_in_check_raises(pieces, game_state.side_to_move = "w")
         THEN MinimaxRaise(table)
         ELSE MinimaxNoMoves(key, depth, maximizing, table,
                             is_in_check(pieces, game_state.side_to_move = "w"))
    ELSE [kind |-> "frame", score |-> 0, table |-> table,
          frame |-> [pieces |-> pieces, game_state |-> game_state,
                     depth |-> depth, alpha |-> alpha, beta |-> beta,
                     maximizing |-> maximizing,
                     moves |-> order_moves(moves, pieces),
                     i |-> 1, pruned |-> FALSE,
                     best_score |-> IF maximizing THEN -Infinity ELSE Infinity]]

\* minimax once position_key is computed
MinimaxKeyed(pieces, game_state, depth, alpha, beta, maximizing, table, key) ==
    IF key \in DOMAIN table /\ depth <= table[key].depth
    THEN MinimaxValue(table[key].score, table)
    ELSE IF depth = 0
    THEN MinimaxLeaf(key, game_state.side_to_move = "w", maximizing, table,
                     evaluate_positions(pieces))
    ELSE IF generate_all_moves_raises(pieces, game_state)
    THEN MinimaxRaise(table)
    ELSE MinimaxGenerated(pieces, game_state, depth, alpha, beta, maximizing, table,
                          key, generate_all_moves(pieces, game_state))

\* minimax from its entry up to the move loop: either it returns at once
\* (kind "value"), or generate_all_moves or is_in_check raises (kind
\* "raise"), or the loop starts with a new frame (kind "frame")
MinimaxEnter(pieces, game_state, depth, alpha, beta, maximizing, table) ==
    MinimaxKeyed(pieces, game_state, depth, alpha, beta, maximizing, table,
                 position_key(pieces, game_state))

Max2(a, b) == IF a >= b THEN a ELSE b

Min2(a, b) == IF a <= b THEN a ELSE b

\* one pass of the loop body after the recursive call returned score
MinimaxUpdate(frame, score) ==
    LET best_score == IF frame.maximizing THEN Max2(frame.best_score, score)
                                          ELSE Min2(frame.best_score, score)
        alpha == IF frame.maximizing THEN Max2(frame.alpha, best_score) ELSE frame.alpha
        beta == IF frame.maximizing THEN frame.beta ELSE Min2(frame.beta, best_score)
    IN  [frame EXCEPT !.best_score = best_score, !.alpha = alpha, !.beta = beta,
                      !.i = @ + 1, !.pruned = beta <= alpha]

\* the move loop of a frame is over
LoopDone(frame) == frame.pruned \/ frame.i > Len(frame.moves)

\* a move string written destination first
move_str_Reversed(move) == square_to_algebraic(move[2]) \o square_to_algebraic(move[1])

\* the string "e2e4" as <<file, rank, file, rank>>
move_str(move) == square_to_algebraic(move[1]) \o square_to_algebraic(move[2])

NoResult == [move |-> NoMove, score |-> 0, nodes |-> -1]

\* {'move': None, 'score': 0, 'nodes': n}
NoneResult(n) == [move |-> NoMove, score |-> 0, nodes |-> n]

\* ChessEvaluator() after __init__, with the locals of get_best_move
NewEvaluator ==
    [pc |-> "idle", transposition_table |-> EmptyTranspositionTable,
     move_history |-> <<>>, pieces |-> BitboardPieces,
     game_state |-> [side_to_move |-> "w", castling_rights |-> {},
                     en_passant |-> NoSquare, halfmove_clock |-> 0,
                     fullmove_number |-> 1],
     is_white |-> TRUE, valid_moves |-> <<>>, max_depth |-> 0,
     current_depth |-> 0, idx |-> 0, best_move |-> NoMove, best_score |-> 0,
     stack |-> <<>>, result |-> NoResult]

MAX_HISTORY == 10

_update_move_history(move_history, move) ==
    LET appended == Append(move_history, move)
    IN  IF Len(appended) > MAX_HISTORY THEN Tail(appended) ELSE appended

\* the return statements after the iterative-deepening loop
ReturnBest(ev, nodes) ==
    IF ev.best_move # NoMove
    THEN [ev EXCEPT !.pc = "done", !.stack = <<>>,
                    !.move_history = _update_move_history(@, move_str(ev.best_move)),
                    !.result = [move |-> move_str(ev.best_move),
                                score |-> ev.best_score, nodes |-> nodes]]
    ELSE [ev EXCEPT !.pc = "done", !.stack = <<>>, !.result = NoneResult(nodes)]

\* the except branch
ReturnFallback(ev) ==
    [ev EXCEPT !.pc = "done", !.stack = <<>>, !.result = NoneResult(0)]

\* the loop "Filter moves to ensure they're coming from the correct side"
ValidMoves(ordered_moves, pieces, is_white) ==
    SelectSeq(ordered_moves,
              LAMBDA m : \E k \in 1..6 :
                            get_bit(pieces[(IF is_white THEN WhiteOrder ELSE BlackOrder)[k]],
                                    m[1]))

\* get_best_move once valid_moves is known
GetBestMoveFiltered(ev, depth, pieces, game_state, valid_moves) ==
    LET is_white == game_state.side_to_move = "w"
        max_depth == Min2(depth, 10)
        started == [ev EXCEPT !.pc = "search", !.pieces = pieces,
                              !.game_state = game_state, !.is_white = is_white,
                              !.valid_moves = valid_moves,
                              !.max_depth = max_depth,
                              !.current_depth = IF max_depth < 1 THEN 0 ELSE 1,
                              !.idx = 1, !.best_move = NoMove,
                              !.best_score = IF is_white THEN -Infinity ELSE Infinity,
                              !.stack = <<>>]
    IN  IF valid_moves = <<>>
        THEN ReturnFallback(ev)
        ELSE IF max_depth < 1
        THEN ReturnBest(started, 0)
        ELSE started

\* get_best_move once generate_all_moves returned all_moves
GetBestMoveGenerated(ev, depth, pieces, game_state, all_moves) ==
    IF all_moves = <<>>
    THEN ReturnFallback(ev)
    ELSE GetBestMoveFiltered(ev, depth, pieces, game_state,
             ValidMoves(order_moves(all_moves, pieces), pieces,
                        game_state.side_to_move = "w"))

\* get_best_move once the FEN is parsed
GetBestMoveParsed(ev, depth, pieces, game_state) ==
    IF generate_all_moves_raises(pieces, game_state)
    THEN ReturnFallback(ev)
    ELSE GetBestMoveGenerated(ev, depth, pieces, game_state,
                              generate_all_moves(pieces, game_state))

\* get_best_move from its entry up to the first recursive call; the node
\* counter is 0 again
GetBestMoveEnter(ev, fen_parts, depth) ==
    [ev |-> IF parse_fen_raises(fen_parts)
            THEN ReturnFallback(
                     [ev EXCEPT !.transposition_table = EmptyTranspositionTable])
            ELSE GetBestMoveParsed(
                     [ev EXCEPT !.transposition_table = EmptyTranspositionTable],
                     depth, parse_fen_pieces(fen_parts), parse_fen_state(fen_parts)),
     nodes |-> 0]

\* the caller of the next recursive call has a move left to try
CanVisit(ev) ==
    /\ ev.pc = "search"
    /\ IF ev.stack = <<>>
       THEN ev.idx <= Len(ev.valid_moves)
       ELSE ~LoopDone(ev.stack[Len(ev.stack)])

\* the value a call returned reaches its caller: the root loop of
\* get_best_move (negated, then compared) or the loop of the minimax frame
Deliver(ev, score) ==
    IF ev.stack = <<>>
    THEN LET negated == -score
             better == \/ ev.is_white /\ negated > ev.best_score
                       \/ ~ev.is_white /\ negated < ev.best_score
                       \/ ev.best_move = NoMove
         IN  [ev EXCEPT !.idx = @ + 1,
                        !.best_score = IF better THEN negated ELSE @,
                        !.best_move = IF better THEN ev.valid_moves[ev.idx] ELSE @]
    ELSE [ev EXCEPT !.stack[Len(ev.stack)] = MinimaxUpdate(@, score)]

\* the loop that makes the next recursive call: the root loop of
\* get_best_move or the loop of the innermost minimax frame
Caller(ev) ==
    IF ev.stack = <<>>
    THEN [pieces |-> ev.pieces, game_state |-> ev.game_state,
          move |-> ev.valid_moves[ev.idx], depth |-> ev.current_depth,
          alpha |-> -Infinity, beta |-> Infinity, maximizing |-> ev.is_white]
    ELSE [pieces |-> ev.stack[Len(ev.stack)].pieces,
          game_state |-> ev.stack[Len(ev.stack)].game_state,
          move |-> ev.stack[Len(ev.stack)].moves[ev.stack[Len(ev.stack)].i],
          depth |-> ev.stack[Len(ev.stack)].depth,
          alpha |-> ev.stack[Len(ev.stack)].alpha,
          beta |-> ev.stack[Len(ev.stack)].beta,
          maximizing |-> ev.stack[Len(ev.stack)].maximizing]

\* what the call of minimax does to the evaluator: r is MinimaxEnter's outcome
VisitOutcome(ev, nodes, r) ==
    IF r.kind = "raise"
    THEN [ev |-> ReturnFallback(ev), nodes |-> nodes + 1]
    ELSE IF r.kind = "value"
    THEN [ev |-> Deliver([ev EXCEPT !.transposition_table = r.table], r.score),
          nodes |-> nodes + 1]
    ELSE [ev |-> [ev EXCEPT !.stack = Append(@, r.frame)], nodes |-> nodes + 1]

\* the recursive call made with the caller's depth, not reduced
VisitCall_SameDepth(ev, nodes, c) ==
    VisitOutcome(ev, nodes,
        MinimaxEnter(make_move_pieces(c.pieces, c.move, c.game_state),
                     make_move_state(c.pieces, c.move, c.game_state),
                     c.depth, c.alpha, c.beta, ~c.maximizing,
                     ev.transposition_table))

\* make_move on the caller's move c.move and minimax on the new position
VisitCall(ev, nodes, c) ==
    VisitOutcome(ev, nodes,
        MinimaxEnter(make_move_pieces(c.pieces, c.move, c.game_state),
                     make_move_state(c.pieces, c.move, c.game_state),
                     c.depth - 1, c.alpha, c.beta, ~c.maximizing,
                     ev.transposition_table))

VisitNode(ev, nodes) == VisitCall(ev, nodes, Caller(ev))

\* the loop of the innermost minimax call is over
CanFinish(ev) ==
    ev.pc = "search" /\ ev.stack # <<>> /\ LoopDone(ev.stack[Len(ev.stack)])

\* the innermost call stores its best score and returns it
FinishNode(ev) ==
    LET top == ev.stack[Len(ev.stack)]
        stored == TableStore(ev.transposition_table,
                             position_key(top.pieces, top.game_state),
                             top.best_score, top.depth)
        popped == [ev EXCEPT !.transposition_table = stored,
                             !.stack = SubSeq(@, 1, Len(@) - 1)]
    IN  Deliver(popped, top.best_score)

Abs(x) == IF x < 0 THEN -x ELSE x

\* every root move of the current depth has been searched
CanEndDepth(ev) ==
    ev.pc = "search" /\ ev.stack = <<>> /\ ev.idx > Len(ev.valid_moves)

\* the end of one pass of the iterative-deepening loop
EndDepth(ev, nodes) ==
    IF Abs(ev.best_score) > CHECKMATE_SCORE - 1000 \/ ev.current_depth >= ev.max_depth
    THEN ReturnBest(ev, nodes)
    ELSE [ev EXCEPT !.current_depth = @ + 1, !.idx = 1]

\* minimax without the transposition table and without the cutoff: the
\* loop over moves from the i-th on, best being the best score so far
RECURSIVE PlainMinimax(_, _, _, _)
RECURSIVE PlainLoop(_, _, _, _, _, _, _)
PlainLoopNext(pieces, game_state, depth, maximizing, moves, i, best, r) ==
    IF r.kind = "raise" THEN r
    ELSE PlainLoop(pieces, game_state, depth, maximizing, moves, i + 1,
                   IF maximizing THEN Max2(best, r.score) ELSE Min2(best, r.score))

PlainLoop(pieces, game_state, depth, maximizing, moves, i, best) ==
    IF i > Len(moves) THEN [kind |-> "value", score |-> best]
    ELSE PlainLoopNext(pieces, game_state, depth, maximizing, moves, i, best,
             PlainMinimax(make_move_pieces(pieces, moves[i], game_state),
                          make_move_state(pieces, moves[i], game_state),
                          depth - 1, ~maximizing))

PlainEntered(pieces, game_state, depth, maximizing, r) ==
    IF r.kind = "frame"
    THEN PlainLoop(pieces, game_state, depth, maximizing, r.frame.moves, 1,
                   r.frame.best_score)
    ELSE [kind |-> r.kind, score |-> r.score]

PlainMinimax(pieces, game_state, depth, maximizing) ==
    PlainEntered(pieces, game_state, depth, maximizing,
                 MinimaxEnter(pieces, game_state, depth, -Infinity, Infinity,
                              maximizing, EmptyTranspositionTable))

\* get_best_move run to its return with PlainMinimax in the place of minimax
RECURSIVE RunPlain(_)
RunPlainReturned(ev, r) ==
    IF r.kind = "raise" THEN ReturnFallback(ev) ELSE RunPlain(Deliver(ev, r.score))

RunPlainCall(ev, c) ==
    RunPlainReturned(ev,
        PlainMinimax(make_move_pieces(c.pieces, c.move, c.game_state),
                     make_move_state(c.pieces, c.move, c.game_state),
                     c.depth - 1, ~c.maximizing))

RunPlain(ev) ==
    IF ev.pc # "search" THEN ev
    ELSE IF CanVisit(ev) THEN RunPlainCall(ev, Caller(ev))
    ELSE RunPlain(EndDepth(ev, 0))

\* the result of the call r searched without table and cutoff
ResultPlain(r) == RunPlain(GetBestMoveEnter(NewEvaluator, r.fen, r.depth).ev).result

\* ------------------------------------------------------------------------
\* Inputs: FEN strings, already split at the blanks, each field a sequence
\* of characters (the clocks as numbers)
\* ------------------------------------------------------------------------
\* rnbqkbnr/pppppppp/8/8/8/8/PPPPPPPP/RNBQKBNR w KQkq - 0 1
\* the standard starting position
InitialFen ==
    <<<<"r", "n", "b", "q", "k", "b", "n", "r", "/", "p", "p", "p", "p",
      "p", "p", "p", "p", "/", "8", "/", "8", "/", "8", "/", "8", "/", "P",
      "P", "P", "P", "P", "P", "P", "P", "/", "R", "N", "B", "Q", "K", "B",
      "N", "R">>, "w", <<"K", "Q", "k", "q">>, <<"-">>, 0, 1>>

\* r3k3/8/8/8/8/8/8/4K2R w Kq - 0 1
\* White may castle king-side, Black queen-side
CastlingFen ==
    <<<<"r", "3", "k", "3", "/", "8", "/", "8", "/", "8", "/", "8", "/", "8",
      "/", "8", "/", "4", "K", "2", "R">>, "w", <<"K", "q">>, <<"-">>, 0, 1>>

\* 4k3/8/8/3p4/4P3/3N4/8/4K3 w - d6 0 1
\* en passant target d6, white pawn e4, white knight d3
EnPassantKnightFen ==
    <<<<"4", "k", "3", "/", "8", "/", "8", "/", "3", "p", "4", "/", "4",
      "P", "3", "/", "3", "N", "4", "/", "8", "/", "4", "K", "3">>, "w",
      <<"-">>, <<"d", "6">>, 0, 1>>

\* 7k/8/8/3p4/r2pPK2/8/8/8 w - d6 0 1
\* en passant target d6, white king f4 and black rook a4 on one rank
EnPassantRookFen ==
    <<<<"7", "k", "/", "8", "/", "8", "/", "3", "p", "4", "/", "r", "2",
      "p", "P", "K", "2", "/", "8", "/", "8", "/", "8">>, "w", <<"-">>,
      <<"d", "6">>, 0, 1>>

\* 4k3/P7/8/8/8/8/p7/4K3 w - - 0 1
\* a pawn of each side one step from its last rank
PromotionFen ==
    <<<<"4", "k", "3", "/", "P", "7", "/", "8", "/", "8", "/", "8", "/",
      "8", "/", "p", "7", "/", "4", "K", "3">>, "w", <<"-">>, <<"-">>, 0,
      1>>

\* 8/8/8/8/8/8/4P3/k6K w - - 0 1
\* White is a pawn up, the black king stands on rank 1
PawnUpFen ==
    <<<<"8", "/", "8", "/", "8", "/", "8", "/", "8", "/", "8", "/", "4",
      "P", "3", "/", "k", "6", "K">>, "w", <<"-">>, <<"-">>, 0, 1>>

\* 4k3/8/8/8/8/8/8/4K3 w - - 0 1
\* bare kings
KingsOnlyFen ==
    <<<<"4", "k", "3", "/", "8", "/", "8", "/", "8", "/", "8", "/", "8",
      "/", "8", "/", "4", "K", "3">>, "w", <<"-">>, <<"-">>, 0, 1>>

\* 6k1/5ppp/8/8/8/8/8/R5K1 w - - 0 1
\* White mates in one with Ra8
WhiteMatesFen ==
    <<<<"6", "k", "1", "/", "5", "p", "p", "p", "/", "8", "/", "8", "/",
      "8", "/", "8", "/", "8", "/", "R", "5", "K", "1">>, "w", <<"-">>,
      <<"-">>, 0, 1>>

\* r5k1/8/8/8/8/8/5PPP/6K1 b - - 0 1
\* Black mates in one with Ra1
BlackMatesFen ==
    <<<<"r", "5", "k", "1", "/", "8", "/", "8", "/", "8", "/", "8", "/",
      "8", "/", "5", "P", "P", "P", "/", "6", "K", "1">>, "b", <<"-">>,
      <<"-">>, 0, 1>>

\* 4r2k/8/8/8/8/6pp/2N3PP/7K w - - 0 1
\* the knight c2 guards e1 against Re1 mate
AvoidMateFen ==
    <<<<"4", "r", "2", "k", "/", "8", "/", "8", "/", "8", "/", "8", "/",
      "6", "p", "p", "/", "2", "N", "3", "P", "P", "/", "7", "K">>, "w",
      <<"-">>, <<"-">>, 0, 1>>

\* R5k1/5ppp/8/8/8/8/8/6K1 b - - 0 1
\* Black is checkmated
MatedFen ==
    <<<<"R", "5", "k", "1", "/", "5", "p", "p", "p", "/", "8", "/", "8",
      "/", "8", "/", "8", "/", "8", "/", "6", "K", "1">>, "b", <<"-">>,
      <<"-">>, 0, 1>>

\* k7/4p3/8/8/8/8/4P3/7K w - - 0 1
\* one pawn each on the e-file
BlockedPawnsFen ==
    <<<<"k", "7", "/", "4", "p", "3", "/", "8", "/", "8", "/", "8", "/",
      "8", "/", "4", "P", "3", "/", "7", "K">>, "w", <<"-">>, <<"-">>, 0,
      1>>

\* 8/8/8/8/8/8/6k1/4K2R w K - 0 1
\* White has the king-side right, the black king on g2 attacks f1 and g1
KingGuardsFen ==
    <<<<"8", "/", "8", "/", "8", "/", "8", "/", "8", "/", "8", "/", "6",
    "k", "1", "/", "4", "K", "2", "R">>, "w", <<"K">>, <<"-">>, 0, 1>>

\* 4k3/8/8/3pP3/8/8/8/4K3 w - d6 0 1
\* en passant target d6, the white pawn e5 stands beside the black pawn d5
EnPassantLegalFen ==
    <<<<"4", "k", "3", "/", "8", "/", "8", "/", "3", "p", "P", "3", "/",
    "8", "/", "8", "/", "8", "/", "4", "K", "3">>, "w", <<"-">>, <<"d",
    "6">>, 0, 1>>

\* 4k3/8/8/8/3p4/8/4N3/4K3 w - - 5 10
\* the white knight e2 can take the pawn d4; five half-moves on the clock
KnightTakesFen ==
    <<<<"4", "k", "3", "/", "8", "/", "8", "/", "8", "/", "3", "p", "4",
    "/", "8", "/", "4", "N", "3", "/", "4", "K", "3">>, "w", <<"-">>,
    <<"-">>, 5, 10>>

\* 8/8/8/1n6/8/2k4n/1N6/4K3 w - - 0 1
\* a white knight against two black knights
KnightsFen ==
    <<<<"8", "/", "8", "/", "8", "/", "1", "n", "6", "/", "8", "/", "2",
      "k", "4", "n", "/", "1", "N", "6", "/", "4", "K", "3">>, "w",
      <<"-">>, <<"-">>, 0, 1>>

\* 7k/5Q2/6K1/8/8/8/8/8 b - - 0 1
\* Black is stalemated in the upper corner
StalemateFen ==
    <<<<"7", "k", "/", "5", "Q", "2", "/", "6", "K", "1", "/", "8", "/", "8",
      "/", "8", "/", "8", "/", "8">>, "b", <<"-">>, <<"-">>, 0, 1>>

\* 8/8/8/8/8/1Q6/8/k1K5 b - - 0 1
\* Black is stalemated with its king on the first rank
CornerStalemateFen ==
    <<<<"8", "/", "8", "/", "8", "/", "8", "/", "8", "/", "1", "Q", "6", "/",
      "8", "/", "k", "1", "K", "5">>, "b", <<"-">>, <<"-">>, 0, 1>>

\* 8/8/8/8/2Kn4/6k1/N7/8 b - - 0 1
\* a knight each, Black to move
TwoKnightsFen ==
    <<<<"8", "/", "8", "/", "8", "/", "8", "/", "2", "K", "n", "4", "/", "6",
      "k", "1", "/", "N", "7", "/", "8">>, "b", <<"-">>, <<"-">>, 0, 1>>

\* 4k3/8/8/8/8/6n1/8/4K2R b K - 0 1
\* the black knight on g3 can take the rook on h1
RookEnPriseFen ==
    <<<<"4", "k", "3", "/", "8", "/", "8", "/", "8", "/", "8", "/", "6", "n",
      "1", "/", "8", "/", "4", "K", "2", "R">>, "b", <<"K">>, <<"-">>, 0, 1>>

Fens ==
    { InitialFen, CastlingFen, EnPassantKnightFen, EnPassantRookFen,
      PromotionFen, PawnUpFen, KingsOnlyFen, WhiteMatesFen, BlackMatesFen,
      AvoidMateFen, MatedFen, BlockedPawnsFen, KingGuardsFen,
      EnPassantLegalFen, KnightTakesFen, KnightsFen, StalemateFen,
      CornerStalemateFen, TwoKnightsFen, RookEnPriseFen }

\* 4k3/8/8/8/8/8/8/4K3 w - e 0 1
\* the en passant field lacks its rank digit
TruncatedEnPassantFen ==
    <<<<"4", "k", "3", "/", "8", "/", "8", "/", "8", "/", "8", "/", "8", "/",
      "8", "/", "4", "K", "3">>, "w", <<"-">>, <<"e">>, 0, 1>>

\* 8/8/8/8/8/8/8/8/8/K7 w - - 0 1
\* ten ranks: the king is read with the cursor below the board
ExtraRanksFen ==
    <<<<"8", "/", "8", "/", "8", "/", "8", "/", "8", "/", "8", "/", "8", "/",
      "8", "/", "8", "/", "K", "7">>, "w", <<"-">>, <<"-">>, 0, 1>>

\* the depths asked of the engine, per position
Requests ==
    { <<InitialFen, 1>>, <<TruncatedEnPassantFen, 2>>, <<ExtraRanksFen, 1>>,
      <<KnightsFen, 2>>,
      <<PawnUpFen, 1>>, <<PawnUpFen, 2>>, <<KingsOnlyFen, 1>>,
      <<WhiteMatesFen, 1>>, <<WhiteMatesFen, 2>>,
      <<BlackMatesFen, 1>>, <<BlackMatesFen, 2>>,
      <<AvoidMateFen, 2>>, <<AvoidMateFen, 3>>, <<MatedFen, 1>>,
      <<BlockedPawnsFen, 0>>, <<BlockedPawnsFen, 1>>, <<BlockedPawnsFen, 6>>,
      <<BlockedPawnsFen, 7>>, <<BlockedPawnsFen, 100>> }

\* the calls that search four plies and more
DeepRequests == { <<TwoKnightsFen, 5>>, <<KnightsFen, 3>>, <<BlockedPawnsFen, 6>> }

NoRequest == [via |-> "none", fen |-> <<>>, depth |-> 0]

\* the calls that two threads make at the same time
ConcurrentRequests ==
    { <<KingsOnlyFen, 1>>, <<PawnUpFen, 1>>, <<WhiteMatesFen, 1>>,
      <<BlockedPawnsFen, 1>>, <<BlockedPawnsFen, 2>> }

\* the two-character square names a1 .. h8, as algebraic_to_index reads them
SquareNames == { FileLetters[i] : i \in 1..8 } \X { DigitChar(n) : n \in 1..8 }

\* no function of board_utils has been called on its own yet
NoCall == [fn |-> "none"]

\* ------------------------------------------------------------------------
\* State
\* ------------------------------------------------------------------------
VARIABLES
    fen,              \* the FEN the game starts from and the engine is asked about
    pieces,           \* BitboardPieces of the game being played
    game_state,       \* its game_state dictionary
    ply,              \* moves played with make_move so far
    last_move,        \* the last move played, NoMove before the first
    request,          \* how the engine was called: entry point, FEN and depth
    evaluator,        \* the ChessEvaluator instance with the frames of its search
    nodes_evaluated,  \* the module-level node counter of evaluation.py
    call,             \* the last call of a board_utils function on its own
    peer,             \* a second ChessEvaluator instance, used by another thread
    peer_request      \* how the second instance was called

vars == <<fen, pieces, game_state, ply, last_move, request, evaluator, nodes_evaluated, call,
          peer, peer_request>>

gameVars == <<pieces, game_state, ply, last_move>>

searchVars == <<request, evaluator, nodes_evaluated>>

peerVars == <<peer, peer_request>>

Init ==
    /\ fen \in Fens
    /\ pieces = parse_fen_pieces(fen)
    /\ game_state = parse_fen_state(fen)
    /\ ply = 0
    /\ last_move = NoMove
    /\ request = NoRequest
    /\ evaluator = NewEvaluator
    /\ nodes_evaluated = 0
    /\ call = NoCall
    /\ peer = NewEvaluator
    /\ peer_request = NoRequest

\* ------------------------------------------------------------------------
\* Playing a game: make_move on a move of generate_all_moves
\* ------------------------------------------------------------------------
MakeMove ==
    /\ ply < MaxPly
    /\ ~generate_all_moves_raises(pieces, game_state)
    /\ LET moves == generate_all_moves(pieces, game_state)
       IN  \E i \in 1..Len(moves) :
              LET made == make_move(<<pieces, game_state>>, 1, 2, moves[i])
              IN  /\ pieces' = made.heap[made.new_pieces]
                  /\ game_state' = made.heap[made.new_game_state]
                  /\ last_move' = moves[i]
    /\ ply' = ply + 1
    /\ UNCHANGED <<fen, call, peerVars, searchVars>>

Next == MakeMove

Spec == Init /\ [][Next]_vars

\* ------------------------------------------------------------------------
\* Asking the engine for a move
\* ------------------------------------------------------------------------
\* evaluator.get_best_move(fen, depth) called directly
GetBestMove ==
    /\ evaluator.pc = "idle"
    /\ \E r \in { q \in Requests : q[1] = fen \/ parse_fen_raises(q[1]) } :
          /\ request' = [via |-> "get_best_move", fen |-> r[1], depth |-> r[2]]
          /\ LET out == GetBestMoveEnter(evaluator, r[1], r[2])
             IN  evaluator' = out.ev /\ nodes_evaluated' = out.nodes
    /\ UNCHANGED <<fen, call, peerVars, gameVars>>

\* the /api/get-move endpoint: depth = min(depth, 6), then get_best_move
get_move ==
    /\ evaluator.pc = "idle"
    /\ \E r \in { q \in Requests : q[1] = fen \/ parse_fen_raises(q[1]) } :
          /\ request' = [via |-> "get_move", fen |-> r[1], depth |-> r[2]]
          /\ LET out == GetBestMoveEnter(evaluator, r[1], Min2(r[2], 6))
             IN  evaluator' = out.ev /\ nodes_evaluated' = out.nodes
    /\ UNCHANGED <<fen, call, peerVars, gameVars>>

\* one call of minimax, up to its return or to the start of its move loop
Visit ==
    /\ CanVisit(evaluator)
    /\ LET out == VisitNode(evaluator, nodes_evaluated)
       IN  evaluator' = out.ev /\ nodes_evaluated' = out.nodes
    /\ UNCHANGED <<fen, call, peerVars, gameVars, request>>

\* the innermost minimax call returns from its loop
Finish ==
    /\ CanFinish(evaluator)
    /\ evaluator' = FinishNode(evaluator)
    /\ UNCHANGED <<fen, call, peerVars, gameVars, request, nodes_evaluated>>

\* the root loop over valid_moves is over for the current depth
NextDepth ==
    /\ CanEndDepth(evaluator)
    /\ evaluator' = EndDepth(evaluator, nodes_evaluated)
    /\ UNCHANGED <<fen, call, peerVars, gameVars, request, nodes_evaluated>>

SearchNext == GetBestMove \/ get_move \/ Visit \/ Finish \/ NextDepth

SearchSpec == Init /\ [][SearchNext]_vars

\* Visit as seen on the node counter: it is the only step of a running
\* search that adds one to nodes_evaluated, and it always does
VisitCounted == CanVisit(evaluator) /\ nodes_evaluated' = nodes_evaluated + 1

\* a call of get_best_move runs to completion on the calling thread: the
\* search always takes its next step
SearchRunSpec ==
    /\ SearchSpec
    /\ WF_nodes_evaluated(VisitCounted)
    /\ WF_vars(Finish)
    /\ WF_vars(NextDepth)

\* ------------------------------------------------------------------------
\* Two threads, each with a ChessEvaluator of its own; nodes_evaluated is
\* the one global of the module evaluation.py
\* ------------------------------------------------------------------------
PeerGetBestMove ==
    /\ peer.pc = "idle"
    /\ \E r \in ConcurrentRequests :
          /\ r[1] = fen
          /\ peer_request' = [via |-> "get_best_move", fen |-> r[1], depth |-> r[2]]
          /\ LET out == GetBestMoveEnter(peer, r[1], r[2])
             IN  peer' = out.ev /\ nodes_evaluated' = out.nodes
    /\ UNCHANGED <<fen, call, gameVars, request, evaluator>>

PeerVisit ==
    /\ CanVisit(peer)
    /\ LET out == VisitNode(peer, nodes_evaluated)
       IN  peer' = out.ev /\ nodes_evaluated' = out.nodes
    /\ UNCHANGED <<fen, call, gameVars, request, evaluator, peer_request>>

PeerFinish ==
    /\ CanFinish(peer)
    /\ peer' = FinishNode(peer)
    /\ UNCHANGED <<fen, call, gameVars, searchVars, peer_request>>

PeerNextDepth ==
    /\ CanEndDepth(peer)
    /\ peer' = EndDepth(peer, nodes_evaluated)
    /\ UNCHANGED <<fen, call, gameVars, searchVars, peer_request>>

\* the first thread calls get_best_move on its instance
ConcurrentGetBestMove ==
    /\ evaluator.pc = "idle"
    /\ \E r \in ConcurrentRequests :
          /\ r[1] = fen
          /\ request' = [via |-> "get_best_move", fen |-> r[1], depth |-> r[2]]
          /\ LET out == GetBestMoveEnter(evaluator, r[1], r[2])
             IN  evaluator' = out.ev /\ nodes_evaluated' = out.nodes
    /\ UNCHANGED <<fen, call, peerVars, gameVars>>

ConcurrentNext ==
    \/ ConcurrentGetBestMove \/ Visit \/ Finish \/ NextDepth
    \/ PeerGetBestMove \/ PeerVisit \/ PeerFinish \/ PeerNextDepth

ConcurrentSpec == Init /\ [][ConcurrentNext]_vars

\* ------------------------------------------------------------------------
\* Deep searches: get_best_move on positions with few pieces
\* ------------------------------------------------------------------------
DeepGetBestMove ==
    /\ evaluator.pc = "idle"
    /\ \E r \in DeepRequests :
          /\ r[1] = fen
          /\ request' = [via |-> "get_best_move", fen |-> r[1], depth |-> r[2]]
          /\ LET out == GetBestMoveEnter(evaluator, r[1], r[2])
             IN  evaluator' = out.ev /\ nodes_evaluated' = out.nodes
    /\ UNCHANGED <<fen, call, peerVars, gameVars>>

DeepSearchNext == DeepGetBestMove \/ Visit \/ Finish \/ NextDepth

DeepSearchSpec == Init /\ [][DeepSearchNext]_vars

\* ------------------------------------------------------------------------
\* board_utils called on its own: square names and attack tables
\* ------------------------------------------------------------------------
AlgebraicToIndex ==
    /\ \E algebraic \in SquareNames :
          call' = [fn |-> "algebraic_to_index", arg |-> algebraic,
                   result |-> algebraic_to_index(algebraic)]
    /\ UNCHANGED <<fen, gameVars, searchVars, peerVars>>

IndexToAlgebraic ==
    /\ \E index \in Squares :
          call' = [fn |-> "index_to_algebraic", arg |-> index,
                   result |-> index_to_algebraic(index)]
    /\ UNCHANGED <<fen, gameVars, searchVars, peerVars>>

\* the entries for sq of the four tables that initialize_attack_tables,
\* called when evaluation.py is imported, has left
AttackTablesAt ==
    /\ \E sq \in Squares :
          call' = [fn |-> "initialize_attack_tables", arg |-> sq,
                   result |-> [KNIGHT_ATTACKS |-> KNIGHT_ATTACKS[sq],
                               KING_ATTACKS |-> KING_ATTACKS[sq],
                               PAWN_ATTACKS_WHITE |-> PAWN_ATTACKS_WHITE[sq],
                               PAWN_ATTACKS_BLACK |-> PAWN_ATTACKS_BLACK[sq]]]
    /\ UNCHANGED <<fen, gameVars, searchVars, peerVars>>

\* is_square_attacked on a square of the position of the game: raised tells
\* that the call ended in an exception, value is what it returned otherwise
IsSquareAttacked ==
    /\ \E square \in Squares, by_white \in BOOLEAN :
          call' = [fn |-> "is_square_attacked",
                   arg |-> [square |-> square, by_white |-> by_white],
                   result |-> IF is_square_attacked_raises(square, pieces, by_white)
                              THEN [raised |-> TRUE, value |-> FALSE]
                              ELSE [raised |-> FALSE,
                                    value |-> is_square_attacked(square, pieces, by_white)]]
    /\ UNCHANGED <<fen, gameVars, searchVars, peerVars>>

BoardUtilsNext ==
    AlgebraicToIndex \/ IndexToAlgebraic \/ AttackTablesAt \/ IsSquareAttacked

BoardUtilsSpec == Init /\ [][BoardUtilsNext]_vars

\* ------------------------------------------------------------------------
\* minimax called on its own, on the position of the game with an empty
\* transposition table and the full window, up to its return or to the
\* start of its move loop
\* ------------------------------------------------------------------------
\* the deepest call of minimax made on its own
MaxMinimaxDepth == 2

MinimaxDepths == 0..MaxMinimaxDepth

MinimaxCall ==
    /\ \E depth \in MinimaxDepths, maximizing \in BOOLEAN :
          LET out == MinimaxEnter(pieces, game_state, depth, -Infinity, Infinity,
                                  maximizing, EmptyTranspositionTable)
          IN  call' = [fn |-> "minimax",
                       arg |-> [depth |-> depth, maximizing |-> maximizing],
                       result |-> [kind |-> out.kind, score |-> out.score]]
    /\ UNCHANGED <<fen, gameVars, searchVars, peerVars>>

MinimaxSpec == Init /\ [][MinimaxCall]_vars

\* ------------------------------------------------------------------------
\* The rules of chess, in which the claims are stated.  Squares are
\* numbered a1 = 0 .. h8 = 63; a position is the twelve piece bitboards, the
\* side to move, the castling rights and the en passant target.
\* ------------------------------------------------------------------------
RuleFile(sq) == sq % 8

RuleRank(sq) == sq \div 8

RuleOnBoard(f, r) == f \in 0..7 /\ r \in 0..7

RuleKnightSteps ==
    { <<1, 2>>, <<2, 1>>, <<2, -1>>, <<1, -2>>, <<-1, -2>>, <<-2, -1>>, <<-2, 1>>, <<-1, 2>> }

RuleKingSteps ==
    { <<1, 0>>, <<1, 1>>, <<0, 1>>, <<-1, 1>>, <<-1, 0>>, <<-1, -1>>, <<0, -1>>, <<1, -1>> }

RuleRookDirs == { <<1, 0>>, <<-1, 0>>, <<0, 1>>, <<0, -1>> }

RuleBishopDirs == { <<1, 1>>, <<1, -1>>, <<-1, 1>>, <<-1, -1>> }

\* the square k steps of d away from sq
RuleShift(sq, d, k) == (RuleRank(sq) + k * d[2]) * 8 + RuleFile(sq) + k * d[1]

RuleShiftOnBoard(sq, d, k) ==
    RuleOnBoard(RuleFile(sq) + k * d[1], RuleRank(sq) + k * d[2])

RuleLeaps(sq, steps) ==
    { RuleShift(sq, d, 1) : d \in { e \in steps : RuleShiftOnBoard(sq, e, 1) } }

\* along each direction up to and including the first occupied square
RuleSlides(sq, dirs, occupied) ==
    { RuleShift(sq, x[1], x[2]) :
        x \in { y \in dirs \X (1..7) :
                  /\ RuleShiftOnBoard(sq, y[1], y[2])
                  /\ \A j \in 1..(y[2] - 1) : RuleShift(sq, y[1], j) \notin occupied } }

RuleSide(p, white) ==
    IF white
    THEN p.W_PAWNS \cup p.W_KNIGHTS \cup p.W_BISHOPS \cup p.W_ROOKS \cup p.W_QUEENS \cup p.W_KING
    ELSE p.B_PAWNS \cup p.B_KNIGHTS \cup p.B_BISHOPS \cup p.B_ROOKS \cup p.B_QUEENS \cup p.B_KING

RuleOccupied(p) == RuleSide(p, TRUE) \cup RuleSide(p, FALSE)

\* the squares a pawn of the given colour on sq attacks
RulePawnAttacks(sq, white) ==
    RuleLeaps(sq, IF white THEN { <<-1, 1>>, <<1, 1>> } ELSE { <<-1, -1>>, <<1, -1>> })

\* sq is attacked by a piece of the given colour
RuleAttacked(p, sq, by_white) ==
    LET occupied == RuleOccupied(p)
        pawns == IF by_white THEN p.W_PAWNS ELSE p.B_PAWNS
        knights == IF by_white THEN p.W_KNIGHTS ELSE p.B_KNIGHTS
        king == IF by_white THEN p.W_KING ELSE p.B_KING
        diagonal == IF by_white THEN p.W_BISHOPS \cup p.W_QUEENS
                                ELSE p.B_BISHOPS \cup p.B_QUEENS
        straight == IF by_white THEN p.W_ROOKS \cup p.W_QUEENS
                                ELSE p.B_ROOKS \cup p.B_QUEENS
    IN  \/ RulePawnAttacks(sq, ~by_white) \cap pawns # {}
        \/ RuleLeaps(sq, RuleKnightSteps) \cap knights # {}
        \/ RuleLeaps(sq, RuleKingSteps) \cap king # {}
        \/ RuleSlides(sq, RuleBishopDirs, occupied) \cap diagonal # {}
        \/ RuleSlides(sq, RuleRookDirs, occupied) \cap straight # {}

\* the king of the given colour stands on an attacked square
RuleInCheck(p, white) ==
    \E k \in (IF white THEN p.W_KING ELSE p.B_KING) : RuleAttacked(p, k, ~white)

\* the bitboard of the given colour that holds sq
RuleField(p, sq, white) ==
    LET order == IF white THEN WhiteOrder ELSE BlackOrder
    IN  order[CHOOSE i \in 1..6 : sq \in p[order[i]]]

\* the pieces after the move m of the side to move
RuleApply(pos, m) ==
    LET white == pos.side = "w"
        p == pos.pieces
        f == RuleField(p, m[1], white)
        pawn == f \in {"W_PAWNS", "B_PAWNS"}
        king == f \in {"W_KING", "B_KING"}
        taken == IF pawn /\ m[2] = pos.ep
                 THEN {IF white THEN m[2] - 8 ELSE m[2] + 8}
                 ELSE {m[2]}
        promotes == pawn /\ RuleRank(m[2]) = (IF white THEN 7 ELSE 0)
        lands == IF promotes THEN (IF white THEN "W_QUEENS" ELSE "B_QUEENS") ELSE f
        rook == IF white THEN "W_ROOKS" ELSE "B_ROOKS"
        rook_from == IF m[2] > m[1] THEN m[1] + 3 ELSE m[1] - 4
        rook_to == IF m[2] > m[1] THEN m[1] + 1 ELSE m[1] - 1
        castles == king /\ (m[2] - m[1] = 2 \/ m[1] - m[2] = 2)
    IN  [g \in PieceFields |->
            LET kept == (p[g] \ taken) \ {m[1]}
                placed == IF g = lands THEN kept \cup {m[2]} ELSE kept
            IN  IF castles /\ g = rook
                THEN (placed \ {rook_from}) \cup {rook_to}
                ELSE placed]

\* moves that obey the way the pieces move, king safety aside
RulePseudoLegal(pos) ==
    LET white == pos.side = "w"
        p == pos.pieces
        own == RuleSide(p, white)
        enemy == RuleSide(p, ~white)
        occupied == own \cup enemy
        up == IF white THEN <<0, 1>> ELSE <<0, -1>>
        pawns == IF white THEN p.W_PAWNS ELSE p.B_PAWNS
        knights == IF white THEN p.W_KNIGHTS ELSE p.B_KNIGHTS
        bishops == IF white THEN p.W_BISHOPS ELSE p.B_BISHOPS
        rooks == IF white THEN p.W_ROOKS ELSE p.B_ROOKS
        queens == IF white THEN p.W_QUEENS ELSE p.B_QUEENS
        kings == IF white THEN p.W_KING ELSE p.B_KING
        home == IF white THEN 4 ELSE 60
        short == IF white THEN "K" ELSE "k"
        long == IF white THEN "Q" ELSE "q"
        free(sqs) == sqs \cap occupied = {}
        safe(sqs) == \A t \in sqs : ~RuleAttacked(p, t, ~white)
    IN  { <<s, RuleShift(s, up, 1)>> :
            s \in { q \in pawns : RuleShiftOnBoard(q, up, 1)
                                  /\ RuleShift(q, up, 1) \notin occupied } }
        \cup
        { <<s, RuleShift(s, up, 2)>> :
            s \in { q \in pawns : /\ RuleRank(q) = (IF white THEN 1 ELSE 6)
                                  /\ RuleShift(q, up, 1) \notin occupied
                                  /\ RuleShift(q, up, 2) \notin occupied } }
        \cup
        { x \in pawns \X Squares :
            /\ x[2] \in RulePawnAttacks(x[1], white)
            /\ x[2] \in enemy \/ (pos.ep # NoSquare /\ x[2] = pos.ep) }
        \cup { x \in knights \X Squares : x[2] \in RuleLeaps(x[1], RuleKnightSteps) \ own }
        \cup { x \in bishops \X Squares :
                 x[2] \in RuleSlides(x[1], RuleBishopDirs, occupied) \ own }
        \cup { x \in rooks \X Squares :
                 x[2] \in RuleSlides(x[1], RuleRookDirs, occupied) \ own }
        \cup { x \in queens \X Squares :
                 x[2] \in RuleSlides(x[1], RuleBishopDirs \cup RuleRookDirs, occupied) \ own }
        \cup { x \in kings \X Squares : x[2] \in RuleLeaps(x[1], RuleKingSteps) \ own }
        \cup { x \in { <<home, home + 2>> } :
                 /\ short \in pos.rights /\ home \in kings /\ (home + 3) \in rooks
                 /\ free({home + 1, home + 2}) /\ safe({home, home + 1, home + 2}) }
        \cup { x \in { <<home, home - 2>> } :
                 /\ long \in pos.rights /\ home \in kings /\ (home - 4) \in rooks
                 /\ free({home - 1, home - 2, home - 3})
                 /\ safe({home, home - 1, home - 2}) }

\* the legal moves: the mover's king is not attacked afterwards
RuleLegalMoves(pos) ==
    { m \in RulePseudoLegal(pos) : ~RuleInCheck(RuleApply(pos, m), pos.side = "w") }

\* the position after the legal move m
RuleNext(pos, m) ==
    LET white == pos.side = "w"
        f == RuleField(pos.pieces, m[1], white)
        double == f \in {"W_PAWNS", "B_PAWNS"} /\ (m[2] - m[1] = 16 \/ m[1] - m[2] = 16)
        lost == (IF 4 \in {m[1], m[2]} THEN {"K", "Q"} ELSE {})
                \cup (IF 60 \in {m[1], m[2]} THEN {"k", "q"} ELSE {})
                \cup (IF 0 \in {m[1], m[2]} THEN {"Q"} ELSE {})
                \cup (IF 7 \in {m[1], m[2]} THEN {"K"} ELSE {})
                \cup (IF 56 \in {m[1], m[2]} THEN {"q"} ELSE {})
                \cup (IF 63 \in {m[1], m[2]} THEN {"k"} ELSE {})
    IN  [pieces |-> RuleApply(pos, m),
         side |-> IF white THEN "b" ELSE "w",
         rights |-> pos.rights \ lost,
         ep |-> IF double THEN (m[1] + m[2]) \div 2 ELSE NoSquare]

RuleCheckmate(pos) == RuleInCheck(pos.pieces, pos.side = "w") /\ RuleLegalMoves(pos) = {}

\* the legal moves that checkmate at once
RuleMatingMoves(pos) == { m \in RuleLegalMoves(pos) : RuleCheckmate(RuleNext(pos, m)) }

\* the square a name such as e4 denotes
RuleSquareOf(file, rank) == (rank - 1) * 8 + FileOrd(file)

\* the position of the game being played, as the rules see it: the en
\* passant target is the one the FEN names or the square a pawn has just
\* passed over in a double step
RulePosition ==
    LET mover_pawns == IF game_state.side_to_move = "w" THEN pieces.B_PAWNS
                                                        ELSE pieces.W_PAWNS
    IN  [pieces |-> [g \in PieceFields |-> pieces[g]],
         side |-> game_state.side_to_move,
         rights |-> game_state.castling_rights,
         ep |-> IF ply = 0
                THEN (IF Len(fen) > 3 /\ fen[4] # <<"-">>
                      THEN RuleSquareOf(fen[4][1], DigitValue[fen[4][2]])
                      ELSE NoSquare)
                ELSE IF /\ last_move[2] \in mover_pawns
                        /\ (last_move[2] - last_move[1] = 16 \/ last_move[1] - last_move[2] = 16)
                THEN (last_move[1] + last_move[2]) \div 2
                ELSE NoSquare]

\* ------------------------------------------------------------------------
\* Vocabulary of the claims
\* ------------------------------------------------------------------------
Range(seq) == { seq[i] : i \in 1..Len(seq) }

Sign(x) == IF x > 0 THEN 1 ELSE IF x < 0 THEN -1 ELSE 0

\* get_best_move has returned from a call on the position of the game
Returned == evaluator.pc = "done" /\ request.fen = fen

\* the returned move as a pair of squares, NoMove for None
ReturnedMove ==
    IF evaluator.result.move = NoMove THEN NoMove
    ELSE <<RuleSquareOf(evaluator.result.move[1], evaluator.result.move[2]),
           RuleSquareOf(evaluator.result.move[3], evaluator.result.move[4])>>

\* the legal moves after which the opponent can checkmate at once
MovesAllowingMate(pos) ==
    { m \in RuleLegalMoves(pos) : RuleMatingMoves(RuleNext(pos, m)) # {} }

\* ------------------------------------------------------------------------
\* C1 - C10
\* ------------------------------------------------------------------------
\* C1: in every position reached by make_move on generated moves the twelve
\* piece bitboards are pairwise disjoint and W_PIECES, B_PIECES, ALL_PIECES
\* are the unions of the white, of the black and of all piece bitboards
C1_BitboardsConsistent ==
    /\ \A f \in PieceFields : \A g \in PieceFields :
          f # g => pieces[f] \cap pieces[g] = {}
    /\ pieces.W_PIECES = RuleSide(pieces, TRUE)
    /\ pieces.B_PIECES = RuleSide(pieces, FALSE)
    /\ pieces.ALL_PIECES = pieces.W_PIECES \cup pieces.B_PIECES

\* C2: in every position reached by make_move on generated moves W_KING and
\* B_KING hold exactly one bit each: no move removes, duplicates or
\* captures a king
C2_OneKingEach ==
    Cardinality(pieces.W_KING) = 1 /\ Cardinality(pieces.B_KING) = 1

\* a black piece has just moved onto the square of the white king
C2_PieceLandedOnKing ==
    /\ ply > 0
    /\ game_state.side_to_move = "w"
    /\ last_move[2] \in pieces.W_KING
    /\ last_move[2] \in RuleSide(pieces, FALSE)

\* C3: after make_move on any generated move the king of the side that
\* moved is not attacked by the opponent
C3_MoverKingNotAttacked ==
    ply > 0 => ~RuleInCheck(pieces, game_state.side_to_move # "w")

\* C4: generate_all_moves returns exactly the legal moves of the side to
\* move, each once
C4_ExactlyTheLegalMoves ==
    /\ ~generate_all_moves_raises(pieces, game_state)
    /\ Range(generate_all_moves(pieces, game_state)) = RuleLegalMoves(RulePosition)
    /\ Len(generate_all_moves(pieces, game_state)) = Cardinality(RuleLegalMoves(RulePosition))

\* C5: with depth >= 1 get_best_move returns move None exactly when the side
\* to move has no legal move, and then the score is 0
C5_NoneExactlyWithoutLegalMove ==
    (Returned /\ request.depth >= 1) =>
        /\ (evaluator.result.move = NoMove) <=> (RuleLegalMoves(RulePosition) = {})
        /\ RuleLegalMoves(RulePosition) = {} => evaluator.result.score = 0

\* C6: when the side to move can checkmate at once, get_best_move returns a
\* move that checkmates, at every depth >= 1
C6_MateInOnePlayed ==
    (Returned /\ request.depth >= 1 /\ RuleMatingMoves(RulePosition) # {}) =>
        ReturnedMove \in RuleMatingMoves(RulePosition)

\* C7: when some legal moves allow the opponent to checkmate at once and
\* some do not, get_best_move at depth >= 2 returns none of the former
C7_NoMoveAllowingMate ==
    (/\ Returned
     /\ request.depth >= 2
     /\ MovesAllowingMate(RulePosition) # {}
     /\ MovesAllowingMate(RulePosition) # RuleLegalMoves(RulePosition)) =>
        ReturnedMove \notin MovesAllowingMate(RulePosition)

\* C8: the returned score is from the perspective of the side to move.  At
\* depth 1 the searched line is the returned move and its value is the
\* evaluation of the position after it: the score has the sign of that
\* evaluation for White to move and the opposite sign for Black to move
C8_ScoreOfSideToMove ==
    (Returned /\ request.depth = 1 /\ evaluator.result.move # NoMove) =>
        Sign(evaluator.result.score) =
            Sign((IF game_state.side_to_move = "w" THEN 1 ELSE -1)
                 * evaluate_positions(make_move_pieces(pieces, ReturnedMove, game_state)))

\* C9: a returned move starts on a square that holds a piece of the side to
\* move and is one of the moves generate_all_moves returns for the position
C9_ReturnedMoveIsGenerated ==
    (Returned /\ evaluator.result.move # NoMove) =>
        /\ ReturnedMove[1] \in RuleSide(pieces, game_state.side_to_move = "w")
        /\ ReturnedMove \in Range(generate_all_moves(pieces, game_state))

\* a search of depth 2 has returned a move
C9_MoveReturned ==
    Returned /\ evaluator.result.move # NoMove /\ request.depth = 2

\* C10: the depth searched is the requested depth clamped to [1, 6],
\* whichever way the engine is called
C10_DepthClampedTo1And6 ==
    evaluator.valid_moves # <<>> =>
        evaluator.max_depth = Max2(1, Min2(request.depth, 6))

\* ------------------------------------------------------------------------
\* C11 - C20
\* ------------------------------------------------------------------------
\* the castling moves among the generated moves of the side to move: the
\* king leaves its square by two files
GeneratedCastlingMoves ==
    LET king == IF game_state.side_to_move = "w" THEN pieces.W_KING ELSE pieces.B_KING
    IN  { m \in Range(generate_all_moves(pieces, game_state)) :
            m[1] \in king /\ (m[2] - m[1] = 2 \/ m[1] - m[2] = 2) }

\* the right a castling move needs
RuleCastlingRight(m) ==
    IF m[1] = 4 THEN (IF m[2] > m[1] THEN "K" ELSE "Q")
    ELSE (IF m[2] > m[1] THEN "k" ELSE "q")

\* the squares between king and rook
RuleCastlingBetween(m) ==
    IF m[2] > m[1] THEN {m[1] + 1, m[1] + 2} ELSE {m[1] - 1, m[1] - 2, m[1] - 3}

\* the squares the king crosses or lands on
RuleCastlingPath(m) ==
    IF m[2] > m[1] THEN {m[1] + 1, m[1] + 2} ELSE {m[1] - 1, m[1] - 2}

\* the four conditions of castling
RuleMayCastle(pos, m) ==
    /\ RuleCastlingRight(m) \in pos.rights
    /\ ~RuleInCheck(pos.pieces, pos.side = "w")
    /\ RuleCastlingBetween(m) \cap RuleOccupied(pos.pieces) = {}
    /\ \A t \in RuleCastlingPath(m) : ~RuleAttacked(pos.pieces, t, pos.side # "w")

\* C11: a castling move is among the generated moves only if its right is
\* present, the king is not in check, the squares between king and rook
\* are empty and no square the king crosses or lands on is attacked
C11_CastlingOnlyWhenAllowed ==
    ~generate_all_moves_raises(pieces, game_state) =>
        \A m \in GeneratedCastlingMoves : RuleMayCastle(RulePosition, m)

\* the move just made with make_move was a two-square push of a pawn
LastMoveWasDoublePush ==
    /\ ply > 0
    /\ last_move[2] \in (IF game_state.side_to_move = "w" THEN pieces.B_PAWNS
                                                           ELSE pieces.W_PAWNS)
    /\ (last_move[2] - last_move[1] = 16 \/ last_move[1] - last_move[2] = 16)

\* C12: after make_move the en passant target is the square the pawn passed
\* over when the move was a two-square pawn push, and absent after any
\* other move
C12_EnPassantTargetAfterMove ==
    ply > 0 =>
        game_state.en_passant =
            (IF LastMoveWasDoublePush THEN (last_move[1] + last_move[2]) \div 2
                                      ELSE NoSquare)

\* the en passant captures the rules allow in the position: a pawn of the
\* side to move captures diagonally onto the en passant target and the
\* mover's king is not attacked afterwards
RuleEnPassantCaptures(pos) ==
    LET pawns == IF pos.side = "w" THEN pos.pieces.W_PAWNS ELSE pos.pieces.B_PAWNS
    IN  { m \in RuleLegalMoves(pos) :
            /\ pos.ep # NoSquare
            /\ m[1] \in pawns
            /\ m[2] = pos.ep
            /\ m[2] \in RulePawnAttacks(m[1], pos.side = "w") }

\* C13: when a pawn of the side to move stands where it captures onto the
\* en passant target, generate_all_moves contains (pawn square, target),
\* unless the capture leaves the mover's king attacked
C13_EnPassantCaptureGenerated ==
    /\ RuleEnPassantCaptures(RulePosition) # {} => ~generate_all_moves_raises(pieces, game_state)
    /\ RuleEnPassantCaptures(RulePosition) \subseteq Range(generate_all_moves(pieces, game_state))

\* C14: when make_move moves a pawn onto the incoming en passant target it
\* removes the enemy pawn directly behind the target (one rank below it
\* for a White capture, one rank above it for a Black capture) and no
\* other enemy piece
C14_EnPassantRemovesPushedPawn ==
    [][(/\ ply' = ply + 1
        /\ game_state.en_passant # NoSquare
        /\ last_move'[2] = game_state.en_passant
        /\ last_move'[1] \in (IF game_state.side_to_move = "w" THEN pieces.W_PAWNS
                                                              ELSE pieces.B_PAWNS))
       => LET white == game_state.side_to_move = "w"
              behind == IF white THEN last_move'[2] - 8 ELSE last_move'[2] + 8
              enemy_pawns == IF white THEN "B_PAWNS" ELSE "W_PAWNS"
          IN  \A g \in (IF white THEN BlackFields ELSE WhiteFields) :
                  pieces'[g] = (IF g = enemy_pawns THEN pieces[g] \ {behind}
                                                   ELSE pieces[g])]_vars

\* C15: when make_move moves a White pawn onto rank 8 or a Black pawn onto
\* rank 1 the target square holds no pawn and a queen of the mover's
\* colour; a pawn moved to any other rank is a pawn on the target square
C15_PawnPromotesOnLastRank ==
    [][(/\ ply' = ply + 1
        /\ last_move'[1] \in (IF game_state.side_to_move = "w" THEN pieces.W_PAWNS
                                                              ELSE pieces.B_PAWNS))
       => LET white == game_state.side_to_move = "w"
              to_sq == last_move'[2]
              pawns == IF white THEN pieces'.W_PAWNS ELSE pieces'.B_PAWNS
              queens == IF white THEN pieces'.W_QUEENS ELSE pieces'.B_QUEENS
          IN  IF RuleRank(to_sq) = (IF white THEN 7 ELSE 0)
              THEN to_sq \notin pieces'.W_PAWNS \cup pieces'.B_PAWNS /\ to_sq \in queens
              ELSE to_sq \in pawns]_vars

\* C16: make_move sets halfmove_clock to 0 for every pawn move and every
\* capture, and to the previous value plus one for every other move
C16_HalfmoveClockReset ==
    [][ply' = ply + 1
       => LET white == game_state.side_to_move = "w"
              pawn_move == last_move'[1] \in (IF white THEN pieces.W_PAWNS
                                                       ELSE pieces.B_PAWNS)
              capture == last_move'[2] \in RuleSide(pieces, ~white)
          IN  game_state'.halfmove_clock =
                  (IF pawn_move \/ capture THEN 0
                                           ELSE game_state.halfmove_clock + 1)]_vars

\* C17: along any sequence of make_move applications a castling right that
\* is absent in a position is absent in every successor position
C17_CastlingRightsOnlyShrink ==
    [][game_state'.castling_rights \subseteq game_state.castling_rights]_vars

\* a move has been made after a move that removed a castling right
C17_RightRemovedEarlier ==
    /\ ply = 2
    /\ game_state.castling_rights # parse_fen_state(fen).castling_rights

\* C18: make_move leaves the objects it is given unchanged, returns two
\* objects that did not exist before the call, and a second call on the same
\* inputs returns two further new objects with equal contents
C18_MakeMoveIsPure ==
    [][ply' = ply + 1 =>
        LET heap == <<pieces, game_state>>
            made == make_move(heap, 1, 2, last_move')
            again == make_move(made.heap, 1, 2, last_move')
        IN  /\ pieces' = made.heap[made.new_pieces]
            /\ game_state' = made.heap[made.new_game_state]
            /\ made.heap[1] = pieces
            /\ made.heap[2] = game_state
            /\ Cardinality({1, 2, made.new_pieces, made.new_game_state}) = 4
            /\ again.heap[1] = pieces
            /\ again.heap[2] = game_state
            /\ Cardinality({1, 2, made.new_pieces, made.new_game_state,
                            again.new_pieces, again.new_game_state}) = 6
            /\ again.heap[made.new_pieces] = pieces'
            /\ again.heap[made.new_game_state] = game_state'
            /\ again.heap[again.new_pieces] = pieces'
            /\ again.heap[again.new_game_state] = game_state']_vars

\* the position is the result of make_move on the decoded FEN, and differs
\* from it in the bitboards and in the game state
C18_MadeFromDecodedFen ==
    /\ ply = 1
    /\ LET made == make_move(<<parse_fen_pieces(fen), parse_fen_state(fen)>>, 1, 2, last_move)
       IN  /\ pieces = made.heap[made.new_pieces]
           /\ game_state = made.heap[made.new_game_state]
           /\ pieces # made.heap[1]
           /\ game_state # made.heap[2]

\* C19: algebraic_to_index and index_to_algebraic are inverse to each other
\* and number the squares rank * 8 + file from a1 = 0 (e4 = 28, h8 = 63),
\* as the FEN decoder does: the squares named on rank 2 are the squares of
\* the White pawns of the decoded initial position
C19_SquareNamesAreRankFileIndexed ==
    /\ call.fn = "algebraic_to_index" =>
          /\ call.result = RuleSquareOf(call.arg[1], DigitValue[call.arg[2]])
          /\ index_to_algebraic(call.result) = call.arg
          /\ call.arg[2] = "2" <=> call.result \in parse_fen_pieces(InitialFen).W_PAWNS
    /\ call.fn = "index_to_algebraic" =>
          /\ call.result \in SquareNames
          /\ RuleSquareOf(call.result[1], DigitValue[call.result[2]]) = call.arg
          /\ algebraic_to_index(call.result) = call.arg

\* C20: after initialize_attack_tables the entries of the four tables for a
\* square are exactly the squares a knight, a king, a White pawn and a Black
\* pawn on it attack
C20_AttackTablesCorrect ==
    call.fn = "initialize_attack_tables" =>
        /\ call.result.KNIGHT_ATTACKS = RuleLeaps(call.arg, RuleKnightSteps)
        /\ call.result.KING_ATTACKS = RuleLeaps(call.arg, RuleKingSteps)
        /\ call.result.PAWN_ATTACKS_WHITE = RulePawnAttacks(call.arg, TRUE)
        /\ call.result.PAWN_ATTACKS_BLACK = RulePawnAttacks(call.arg, FALSE)

\* ------------------------------------------------------------------------
\* C21 - C30
\* ------------------------------------------------------------------------
\* the minimax calls in progress have depths current_depth - 1,
\* current_depth - 2, ... and none has depth 0 or less; the
\* iterative-deepening loop is within its bound
DepthsDescend ==
    evaluator.pc = "search" =>
        /\ evaluator.current_depth \in 1..evaluator.max_depth
        /\ evaluator.max_depth <= 10
        /\ \A i \in 1..Len(evaluator.stack) :
              /\ evaluator.stack[i].depth = evaluator.current_depth - i
              /\ evaluator.stack[i].depth >= 1

\* C21: get_best_move terminates: every recursive minimax call has the depth
\* of its caller reduced by one and none goes below depth 0, the
\* iterative-deepening loop is bounded, and every search that started
\* delivers a result
C21_SearchTerminates ==
    /\ []DepthsDescend
    /\ (evaluator.pc = "search") ~> (evaluator.pc = "done")

\* a search of at least two iterations with nested minimax calls has ended
C21_DeepSearchEnded ==
    /\ evaluator.pc = "done"
    /\ evaluator.current_depth >= 2
    /\ evaluator.current_depth = evaluator.max_depth
    /\ evaluator.result.nodes > Len(evaluator.valid_moves) * 2

\* the response of get_best_move to a position without legal moves
NoMoveResponse == NoneResult(0)

\* C22: a call of get_best_move on a FEN that cannot be decoded ends with an
\* outcome other than the response to a position without legal moves, and
\* leaves nothing in the evaluator: no table entry, no move in the history,
\* no node counted
C22_DecodeErrorSurfaced ==
    (evaluator.pc = "done" /\ parse_fen_raises(request.fen)) =>
        /\ evaluator.result # NoMoveResponse
        /\ evaluator.transposition_table = EmptyTranspositionTable
        /\ evaluator.move_history = <<>>
        /\ nodes_evaluated = 0

\* get_best_move run from the state (ev, nodes) to its return, no other
\* thread running: the evaluator at the return
RECURSIVE RunAlone(_, _)
RunAlone(ev, nodes) ==
    IF ev.pc # "search" THEN ev
    ELSE IF CanVisit(ev)
    THEN LET out == VisitNode(ev, nodes) IN RunAlone(out.ev, out.nodes)
    ELSE IF CanFinish(ev) THEN RunAlone(FinishNode(ev), nodes)
    ELSE RunAlone(EndDepth(ev, nodes), nodes)

\* the result of the call r made alone on a new ChessEvaluator
ResultAlone(r) ==
    LET out == GetBestMoveEnter(NewEvaluator, r.fen, r.depth)
    IN  RunAlone(out.ev, out.nodes).result

\* C23: of two get_best_move calls running concurrently on two
\* ChessEvaluator instances, each returns the move, the score and the node
\* count that the same call returns when it runs alone
C23_ConcurrentCallsAsAlone ==
    /\ (evaluator.pc = "done" /\ request.via = "get_best_move") =>
          evaluator.result = ResultAlone(request)
    /\ (peer.pc = "done" /\ peer_request.via = "get_best_move") =>
          peer.result = ResultAlone(peer_request)

\* the end of one pass of the iterative-deepening loop when the next pass
\* starts with best_move and best_score as new
EndDepthReinitialised(ev, nodes) ==
    LET ended == EndDepth(ev, nodes)
    IN  IF ended.pc = "search"
        THEN [ended EXCEPT !.best_move = NoMove,
                           !.best_score = IF ended.is_white THEN -Infinity ELSE Infinity]
        ELSE ended

\* get_best_move run to its return with every depth starting anew
RECURSIVE RunReinitialised(_, _)
RunReinitialised(ev, nodes) ==
    IF ev.pc # "search" THEN ev
    ELSE IF CanVisit(ev)
    THEN LET out == VisitNode(ev, nodes) IN RunReinitialised(out.ev, out.nodes)
    ELSE IF CanFinish(ev) THEN RunReinitialised(FinishNode(ev), nodes)
    ELSE RunReinitialised(EndDepthReinitialised(ev, nodes), nodes)

\* the result of the call r when every depth starts anew
ResultReinitialised(r) ==
    LET out == GetBestMoveEnter(NewEvaluator, r.fen, r.depth)
    IN  RunReinitialised(out.ev, out.nodes).result

\* C24: the move and the score get_best_move returns are the best of the
\* last completed depth iteration, the ones of the search whose best move
\* and best score are new at the start of every depth, never kept from a
\* shallower iteration
C24_BestOfLastIteration ==
    (evaluator.pc = "done" /\ request.via = "get_best_move") =>
        /\ evaluator.result.move = ResultReinitialised(request).move
        /\ evaluator.result.score = ResultReinitialised(request).score


\* C25: minimax called with depth >= 1 and no usable transposition entry on
\* a position whose side to move has no legal move returns -CHECKMATE_SCORE
\* when that side is in check and maximizing is set, +CHECKMATE_SCORE when
\* it is in check and maximizing is not set, and 0 when it is not in check.
C25_NoLegalMoveScore ==
    (/\ call.fn = "minimax"
     /\ call.arg.depth >= 1
     /\ RuleLegalMoves(RulePosition) = {})
    => /\ call.result.kind = "value"
       /\ call.result.score =
              IF RuleInCheck(RulePosition.pieces, RulePosition.side = "w")
              THEN (IF call.arg.maximizing THEN -CHECKMATE_SCORE ELSE CHECKMATE_SCORE)
              ELSE 0

C27_PruningAndTableNeutral ==
    (evaluator.pc = "done" /\ request.via = "get_best_move") =>
        /\ evaluator.result.move = ResultPlain(request).move
        /\ evaluator.result.score = ResultPlain(request).score

\* C28: for every pseudo-legal move of the position at hand, castling, en
\* passant and promotion included, the provisional position of the
\* king-safety filter of generate_all_moves has the twelve piece bitboards
\* of the position that make_move returns for that move
C28_ProvisionalAsPlayed ==
    ~generate_castling_moves_raises(pieces, game_state.castling_rights,
                                    game_state.side_to_move = "w")
    => \A i \in 1..Len(PseudoLegalMoves(pieces, game_state)) :
          \A g \in PieceFields :
             ProvisionalPieces(pieces, PseudoLegalMoves(pieces, game_state)[i],
                               game_state.side_to_move = "w")[g]
             = make_move_pieces(pieces, PseudoLegalMoves(pieces, game_state)[i],
                                game_state)[g]

\* the castling right is backed by its king and its rook standing at home
RightBacked(right) ==
    CASE right = "K" -> E1 \in pieces.W_KING /\ H1 \in pieces.W_ROOKS
      [] right = "Q" -> E1 \in pieces.W_KING /\ A1 \in pieces.W_ROOKS
      [] right = "k" -> E8 \in pieces.B_KING /\ H8 \in pieces.B_ROOKS
      [] right = "q" -> E8 \in pieces.B_KING /\ A8 \in pieces.B_ROOKS
      [] OTHER -> TRUE

\* make_move on the castling move m keeps the number of rooks and of pieces
\* of the side that castles
CastlingKeepsCount(m) ==
    LET rooks == IF game_state.side_to_move = "w" THEN "W_ROOKS" ELSE "B_ROOKS"
        own == IF game_state.side_to_move = "w" THEN "W_PIECES" ELSE "B_PIECES"
    IN  /\ count_bits(make_move_pieces(pieces, m, game_state)[rooks])
              = count_bits(pieces[rooks])
        /\ count_bits(make_move_pieces(pieces, m, game_state)[own])
              = count_bits(pieces[own])

\* C29: in every position reached from a valid starting position each
\* castling right still present has its king on e1/e8 and a rook of the
\* colour on its corner, and make_move on a generated castling move neither
\* adds a rook nor raises the number of pieces of the side that castles
C29_CastlingRightsBacked ==
    /\ \A right \in game_state.castling_rights : RightBacked(right)
    /\ ~generate_castling_moves_raises(pieces, game_state.castling_rights,
                                       game_state.side_to_move = "w")
       => \A i \in 1..Len(generate_castling_moves(pieces, game_state.castling_rights,
                                                  game_state.side_to_move = "w")) :
             CastlingKeepsCount(generate_castling_moves(pieces, game_state.castling_rights,
                                    game_state.side_to_move = "w")[i])

\* C30: is_square_attacked returns a boolean and raises nothing for every
\* square 0..63, every position and both attacker colours, the squares of
\* the first and the eighth rank included; generate_all_moves and
\* is_in_check therefore raise nothing wherever the kings stand
C30_AttackTestNeverRaises ==
    /\ call.fn = "is_square_attacked" => ~call.result.raised
    /\ ~is_in_check_raises(pieces, TRUE)
    /\ ~is_in_check_raises(pieces, FALSE)
    /\ ~generate_all_moves_raises(pieces, game_state)
====
